---- MODULE Spec2Model ----
(***************************************************************************)
(* Murmur backend: the relational store (users' cached counters, follows,  *)
(* murmurs, likes, notifications) and the request handlers that mutate it. *)
(* Every handler is cut at its awaits: one action per store round trip, so *)
(* that requests interleave exactly where the event loop lets them.        *)
(***************************************************************************)
EXTENDS Integers, FiniteSets, Sequences, TLC

\* ------------------------------------------------------------------ bounds
NumUsers == 3
NumReqs == 2
MaxMurmurs == 2

Users == 1..NumUsers
NoUser == 0
Reqs == 1..NumReqs
MurmurIds == 1..MaxMurmurs
\* the users who send requests where requests of several kinds interleave
NumCallers == 2
Callers == 1..NumCallers
\* the ticks of the store's clock, and the page sizes a request asks for
MaxClock == 2
MaxLimit == 2
Limits == 1..MaxLimit
\* the pages a request asks for
MaxPage == 2
Pages == 1..MaxPage
\* the page sizes and the sizes of the result set for which the pagination of a
\* listing is checked
MaxPageSize == 10
PageSizes == 1..MaxPageSize
MaxItems == 15
\* the window of getTrending (24 hours), in ticks of the clock
Day == 1
\* the longest content the validator of POST /murmurs accepts
MaxContentLength == 280
\* a content is the number of whitespace characters around it (pad) and of the
\* characters between them (core, which neither starts nor ends with whitespace);
\* Contents are the ones around the validator's limits, Plain a one-letter content
MaxPad == 1
Contents ==
  {[pad |-> p, core |-> c] :
     p \in 0..MaxPad, c \in {0, 1, MaxContentLength - 1, MaxContentLength,
                             MaxContentLength + 1}}
Plain == [pad |-> 0, core |-> 1]

\* the usernames and the (normalized) emails that registrations choose from
NumNames == 2
Names == 1..NumNames
Emails == 1..NumNames

VARIABLES
  followersCount,   \* users.followersCount
  followingCount,   \* users.followingCount
  murmursCount,     \* users.murmursCount
  follows,          \* rows of table follows, as pairs <<followerId, followingId>>
  murmurs,          \* rows of table murmurs, in creation order; a row's id is its index
  likes,            \* rows of table likes, as pairs <<userId, murmurId>>
  notifications,    \* rows of table notifications
  req,              \* the requests in flight: each slot's handler, position and locals
  lastFollow,       \* history: the edge a follow request created while no other request
                    \* was in flight, and both counters as they stood before it; kept
                    \* until a request other than the unfollow of that pair begins
  now,              \* the store's clock (CURRENT_TIMESTAMP), in ticks
  users             \* rows of table users created by POST /register: username and email

store == <<followersCount, followingCount, murmursCount, follows, murmurs, likes, notifications>>
vars == <<followersCount, followingCount, murmursCount, follows, murmurs, likes,
          notifications, req, lastFollow, now, users>>

\* ------------------------------------------------------------- request slots
\* the id of no notification (an absent cursor, a null nextCursor)
NoId == [type |-> "", userId |-> 0, actorId |-> 0, murmurId |-> 0, copy |-> 0]

\* the body of a notification listing before it is computed; order is history: the
\* order in which the store held the caller's rows when the query ran
NoList == [limit |-> 0, order |-> <<>>, notifications |-> <<>>, hasMore |-> FALSE,
           nextCursor |-> NoId]

\* pagination of a listing response, as the routes compute it
Ceil(a, b) == (a + b - 1) \div b
PaginationNoNext(page, limit, totalCount) ==
  [page |-> page, limit |-> limit, totalCount |-> totalCount,
   totalPages |-> Ceil(totalCount, limit),
   hasNextPage |-> FALSE,
   hasPreviousPage |-> page > 1]
Pagination(page, limit, totalCount) ==
  [page |-> page, limit |-> limit, totalCount |-> totalCount,
   totalPages |-> Ceil(totalCount, limit),
   hasNextPage |-> page * limit < totalCount,
   hasPreviousPage |-> page > 1]

\* the body of a murmur or user listing before it is computed: ids are the rows of
\* the page, murmurs the formatted rows of the response; at is history, the time at
\* which getTrending selected the rows
NoFeed == [page |-> 0, limit |-> 0, offset |-> 0, at |-> 0, ids |-> <<>>, totalCount |-> 0, likeCounts |-> <<>>,
           murmurs |-> <<>>, pagination |-> Pagination(0, 1, 0)]

Idle ==
  [op |-> "none", pc |-> "idle", user |-> 0, target |-> 0, reply |-> 0, snap |-> 0,
   pend |-> {}, failed |-> FALSE, thrown |-> "", owner |-> 0, ret |-> "",
   nid |-> NoId, list |-> NoList, feed |-> NoFeed, content |-> [pad |-> 0, core |-> 0],
   status |-> 0, error |-> "", resp |-> 0]

NoTrip == [a |-> 0, b |-> 0, fing |-> 0, fers |-> 0]

Begin(r, op, pc, user, target, reply) ==
  req' = [req EXCEPT ![r] = [Idle EXCEPT !.op = op, !.pc = pc, !.user = user,
                                         !.target = target, !.reply = reply]]

Goto(r, pc) == req' = [req EXCEPT ![r].pc = pc]

Respond(r, status, error, resp) ==
  req' = [req EXCEPT ![r].pc = "done", ![r].status = status, ![r].error = error,
                     ![r].resp = resp]

Throw(r, cause, error) ==
  req' = [req EXCEPT ![r].pc = "done", ![r].status = 500, ![r].error = error,
                     ![r].thrown = cause]

At(r, op, pc) == req[r].op = op /\ req[r].pc = pc

Quiescent == \A r \in Reqs : req[r].pc = "idle"

Max(a, b) == IF a >= b THEN a ELSE b

\* ------------------------------------------------------------------ stores
\* prisma.user.update({ where: { id }, data: counts }): the column is SET to the
\* number passed in data (no { increment: n } wrapper is used).
UpdateCounts(column, id, n) == [column EXCEPT ![id] = n]

\* FollowService.findByFollowerAndFollowing / isFollowing
FindByFollowerAndFollowingNever(f, a, b) == FALSE
FindByFollowerAndFollowing(f, a, b) == <<a, b>> \in f
isFollowing(a, b) == FindByFollowerAndFollowing(follows, a, b)

\* prisma.follow.create: the new row
FollowInsertNothing(f, a, b) == f
FollowInsert(f, a, b) == f \cup {<<a, b>>}

\* prisma.follow.delete inside FollowService.delete (a missing row is swallowed)
FollowDelete(f, a, b) == f \ {<<a, b>>}

\* NotificationService.create, its first test: the recipient is the actor
SelfActionNever(userId, actorId) == FALSE
SelfAction(userId, actorId) == userId = actorId

\* NotificationService.create, its findFirst: murmurId filters only when given
NotifMatch(n, type, userId, actorId, murmurId) ==
  /\ n.type = type /\ n.userId = userId /\ n.actorId = actorId
  /\ (murmurId # 0 => n.murmurId = murmurId)

NotifExistsNever(ns, type, userId, actorId, murmurId) == FALSE
NotifExists(ns, type, userId, actorId, murmurId) ==
  \E n \in ns : NotifMatch(n, type, userId, actorId, murmurId)

\* prisma.notification.create: a new unread row, stamped with the store's clock;
\* rows have no uniqueness constraint, copy tells apart rows that agree on every
\* other column
NotifInsertNothing(ns, type, userId, actorId, murmurId) == ns
NotifInsert(ns, type, userId, actorId, murmurId) ==
  LET same == {n \in ns : n.type = type /\ n.userId = userId /\ n.actorId = actorId
                          /\ n.murmurId = murmurId}
      copy == CHOOSE c \in 1..(Cardinality(same) + 1) : \A n \in same : n.copy # c
  IN ns \cup {[type |-> type, userId |-> userId, actorId |-> actorId,
               murmurId |-> murmurId, isRead |-> FALSE, copy |-> copy,
               createdAt |-> now]}

\* The id column of a notification row (a generated key): its columns other than
\* isRead together with copy, which no other row shares
NotifId(n) ==
  [type |-> n.type, userId |-> n.userId, actorId |-> n.actorId, murmurId |-> n.murmurId,
   copy |-> n.copy]

\* NotificationService.markAsRead: updateMany where { id, userId }
MarkAsReadAnyUser(ns, id, userId) ==
  {IF NotifId(n) = id THEN [n EXCEPT !.isRead = TRUE] ELSE n : n \in ns}
MarkAsRead(ns, id, userId) ==
  {IF NotifId(n) = id /\ n.userId = userId THEN [n EXCEPT !.isRead = TRUE] ELSE n : n \in ns}

\* NotificationService.delete: deleteMany where { id, userId }
NotificationDelete(ns, id, userId) == {n \in ns : ~(NotifId(n) = id /\ n.userId = userId)}

\* orderBy { createdAt: 'desc' }: the orders in which the store can return rows,
\* newest first; rows with equal createdAt come in either order
Orders(rows) ==
  {q \in [1..Cardinality(rows) -> rows] :
     \A i, j \in 1..Cardinality(rows) :
       i < j => q[i] # q[j] /\ q[i].createdAt >= q[j].createdAt}

\* prisma.notification.findMany({ where: { userId }, orderBy, take, cursor, skip: 1 })
\* over the rows of userId in the store's order: with a cursor the rows that come
\* after the cursor's row, without one all rows; at most take of them
FindManyNotifications(order, take, cursor) ==
  LET at == {i \in 1..Len(order) : NotifId(order[i]) = cursor}
      from == IF cursor = NoId THEN 1
              ELSE IF at = {} THEN Len(order) + 1
              ELSE (CHOOSE i \in at : TRUE) + 1
      to == IF from + take - 1 <= Len(order) THEN from + take - 1 ELSE Len(order)
  IN SubSeq(order, from, to)

\* NotificationService.getUserNotifications(userId, limit, cursor): one row more than
\* limit is fetched, and trimmed when it is there
getUserNotificationsExact(order, limit, cursor) ==
  LET found == FindManyNotifications(order, limit, cursor)
      hasMore == Len(found) > limit
      results == IF hasMore THEN SubSeq(found, 1, Len(found) - 1) ELSE found
  IN [limit |-> limit, order |-> order, notifications |-> results, hasMore |-> hasMore,
      nextCursor |-> IF hasMore /\ Len(results) > 0
                       THEN NotifId(results[Len(results)]) ELSE NoId]
getUserNotifications(order, limit, cursor) ==
  LET found == FindManyNotifications(order, limit + 1, cursor)
      hasMore == Len(found) > limit
      results == IF hasMore THEN SubSeq(found, 1, Len(found) - 1) ELSE found
  IN [limit |-> limit, order |-> order, notifications |-> results, hasMore |-> hasMore,
      nextCursor |-> IF hasMore /\ Len(results) > 0
                       THEN NotifId(results[Len(results)]) ELSE NoId]

\* NotificationService.markAllAsRead: updateMany on the unread rows of userId
MarkAllAsRead(ns, userId) ==
  {IF n.userId = userId /\ ~n.isRead THEN [n EXCEPT !.isRead = TRUE] ELSE n : n \in ns}

\* -------------------------------------------------------------------- Init
Init ==
  /\ followersCount = [u \in Users |-> 0]
  /\ followingCount = [u \in Users |-> 0]
  /\ murmursCount = [u \in Users |-> 0]
  /\ follows = {}
  /\ murmurs = <<>>
  /\ likes = {}
  /\ notifications = {}
  /\ req = [r \in Reqs |-> Idle]
  /\ lastFollow = NoTrip
  /\ now = 0
  /\ users = {}

\* A store in which users 2 and 3 may follow user 1 (followed at time 0) and user 1
\* has then posted n root murmurs, one per tick, with the counters as the follow and
\* create requests leave them.
InitPage ==
  \E n \in 0..MaxItems, fs \in SUBSET {2, 3} :
    /\ followersCount = [u \in Users |-> IF u = 1 /\ fs # {} THEN 1 ELSE 0]
    /\ followingCount = [u \in Users |-> IF u \in fs THEN 1 ELSE 0]
    /\ murmursCount = [u \in Users |-> IF u = 1 /\ n > 0 THEN 1 ELSE 0]
    /\ follows = {<<a, 1>> : a \in fs}
    /\ murmurs = [i \in 1..n |-> [userId |-> 1, content |-> 1, replyToId |-> 0,
                                  isDeleted |-> FALSE, likesCount |-> 0,
                                  repliesCount |-> 0, createdAt |-> i]]
    /\ likes = {}
    /\ notifications = {[type |-> "follow", userId |-> 1, actorId |-> a, murmurId |-> 0,
                         isRead |-> FALSE, copy |-> 1, createdAt |-> 0] : a \in fs}
    /\ req = [r \in Reqs |-> Idle]
    /\ lastFollow = NoTrip
    /\ now = n
    /\ users = {}

\* Time passes at the store: two rows written with no tick between them carry the
\* same createdAt.
Tick ==
  /\ now < MaxClock
  /\ now' = now + 1
  /\ UNCHANGED <<store, req, lastFollow, users>>

\* The response has been sent; the slot takes the next request.
Finish(r) ==
  /\ req[r].pc = "done"
  /\ req' = [req EXCEPT ![r] = Idle]
  /\ UNCHANGED store
  /\ lastFollow' = IF req[r].op = "unfollow" THEN NoTrip ELSE lastFollow
  /\ UNCHANGED <<now, users>>

\* ----------------------------------------------- POST /users/:userId/follow
FollowStart(r, a, b) ==
  /\ req[r].pc = "idle"
  /\ Begin(r, "follow", "findTarget", a, b, 0)
  /\ UNCHANGED store
  /\ lastFollow' = NoTrip
  /\ UNCHANGED <<now, users>>

\* UserService.findById(targetUserId)
FollowFindTarget(r) ==
  /\ At(r, "follow", "findTarget")
  /\ IF req[r].target \in Users
       THEN req' = [req EXCEPT ![r].pc = "checkExisting",
                               ![r].snap = followersCount[req[r].target]]
       ELSE Respond(r, 404, "User not found", 0)
  /\ UNCHANGED store
  /\ UNCHANGED <<lastFollow, now, users>>

\* FollowService.findByFollowerAndFollowing(currentUserId, targetUserId)
FollowCheckExisting(r) ==
  /\ At(r, "follow", "checkExisting")
  /\ IF FindByFollowerAndFollowing(follows, req[r].user, req[r].target)
       THEN Respond(r, 409, "Already following this user", 0)
       ELSE Goto(r, "create")
  /\ UNCHANGED store
  /\ UNCHANGED <<lastFollow, now, users>>

\* FollowService.create(currentUserId, targetUserId)
FollowCreate(r) ==
  /\ At(r, "follow", "create")
  /\ IF req[r].user = req[r].target
       THEN /\ Throw(r, "self", "Failed to follow user")
            /\ UNCHANGED follows
       ELSE IF <<req[r].user, req[r].target>> \in follows
         THEN /\ Throw(r, "unique", "Failed to follow user")
              /\ UNCHANGED follows
         ELSE /\ follows' = FollowInsert(follows, req[r].user, req[r].target)
              /\ req' = [req EXCEPT ![r].pc = "counts",
                                    ![r].pend = {"followingCount", "followersCount"}]
  /\ UNCHANGED <<followersCount, followingCount, murmursCount, murmurs, likes, notifications>>
  /\ lastFollow' = IF req'[r].pc = "counts" /\ \A q \in Reqs \ {r} : req[q].pc = "idle"
                    THEN [a |-> req[r].user, b |-> req[r].target,
                          fing |-> followingCount[req[r].user],
                          fers |-> followersCount[req[r].target]]
                    ELSE lastFollow
  /\ UNCHANGED <<now, users>>

\* One of the two updates of Promise.all has settled; when both have, the handler
\* goes on, or answers 500 if either was rejected.
Settled(r, which, rejected, next, error) ==
  LET left == req[r].pend \ {which}
      bad == req[r].failed \/ rejected
  IN IF left # {}
       THEN req' = [req EXCEPT ![r].pend = left, ![r].failed = bad]
       ELSE IF bad
         THEN req' = [req EXCEPT ![r].pend = left, ![r].failed = bad, ![r].pc = "done",
                                 ![r].status = 500, ![r].error = error,
                                 ![r].thrown = "store"]
         ELSE req' = [req EXCEPT ![r].pend = left, ![r].pc = next]

\* UserService.updateCounts(currentUserId, { followingCount: 1 }) and
\* UserService.updateCounts(targetUserId, { followersCount: 1 }), in either order
FollowUpdateCounts(r, which) ==
  /\ At(r, "follow", "counts")
  /\ which \in req[r].pend
  /\ IF which = "followingCount"
       THEN /\ followingCount' = UpdateCounts(followingCount, req[r].user, 1)
            /\ UNCHANGED followersCount
       ELSE /\ followersCount' = UpdateCounts(followersCount, req[r].target, 1)
            /\ UNCHANGED followingCount
  /\ Settled(r, which, FALSE, "notifyFind", "Failed to follow user")
  /\ UNCHANGED <<murmursCount, follows, murmurs, likes, notifications>>
  /\ UNCHANGED <<lastFollow, now, users>>

\* The store rejects one of the two counter updates.
FollowUpdateCountsFails(r, which) ==
  /\ At(r, "follow", "counts")
  /\ which \in req[r].pend
  /\ Settled(r, which, TRUE, "notifyFind", "Failed to follow user")
  /\ UNCHANGED store
  /\ UNCHANGED <<lastFollow, now, users>>

\* NotificationService.create('follow', targetUserId, currentUserId): the findFirst
FollowNotifyFind(r) ==
  /\ At(r, "follow", "notifyFind")
  /\ IF SelfAction(req[r].target, req[r].user)
       THEN req' = [req EXCEPT ![r].pc = "done", ![r].status = 200, ![r].ret = "null",
                               ![r].resp = req[r].snap + 1]
       ELSE IF NotifExists(notifications, "follow", req[r].target, req[r].user, 0)
         THEN req' = [req EXCEPT ![r].pc = "done", ![r].status = 200,
                                 ![r].ret = "existing", ![r].resp = req[r].snap + 1]
         ELSE Goto(r, "notifyCreate")
  /\ UNCHANGED store
  /\ UNCHANGED <<lastFollow, now, users>>

\* NotificationService.create('follow', ...): the prisma.notification.create
FollowNotifyCreate(r) ==
  /\ At(r, "follow", "notifyCreate")
  /\ notifications' = NotifInsert(notifications, "follow", req[r].target, req[r].user, 0)
  /\ req' = [req EXCEPT ![r].pc = "done", ![r].status = 200, ![r].ret = "created",
                        ![r].resp = req[r].snap + 1]
  /\ UNCHANGED <<followersCount, followingCount, murmursCount, follows, murmurs, likes>>
  /\ UNCHANGED <<lastFollow, now, users>>

\* The store rejects the notification write.
FollowNotifyFails(r) ==
  /\ At(r, "follow", "notifyCreate")
  /\ Throw(r, "store", "Failed to follow user")
  /\ UNCHANGED store
  /\ UNCHANGED <<lastFollow, now, users>>

\* --------------------------------------------- DELETE /users/:userId/follow
UnfollowStart(r, a, b) ==
  /\ req[r].pc = "idle"
  /\ Begin(r, "unfollow", "findTarget", a, b, 0)
  /\ UNCHANGED store
  /\ lastFollow' = IF /\ lastFollow.a = a /\ lastFollow.b = b
                       /\ \A q \in Reqs \ {r} : req[q].pc = "idle"
                    THEN lastFollow
                    ELSE NoTrip
  /\ UNCHANGED <<now, users>>

UnfollowFindTarget(r) ==
  /\ At(r, "unfollow", "findTarget")
  /\ IF req[r].target \in Users
       THEN req' = [req EXCEPT ![r].pc = "checkExisting",
                               ![r].snap = followersCount[req[r].target]]
       ELSE Respond(r, 404, "User not found", 0)
  /\ UNCHANGED store
  /\ UNCHANGED <<lastFollow, now, users>>

UnfollowCheckExisting(r) ==
  /\ At(r, "unfollow", "checkExisting")
  /\ IF FindByFollowerAndFollowing(follows, req[r].user, req[r].target)
       THEN Goto(r, "delete")
       ELSE Respond(r, 409, "Not following this user", 0)
  /\ UNCHANGED store
  /\ UNCHANGED <<lastFollow, now, users>>

\* FollowService.delete(currentUserId, targetUserId); its boolean is not looked at
UnfollowDelete(r) ==
  /\ At(r, "unfollow", "delete")
  /\ follows' = FollowDelete(follows, req[r].user, req[r].target)
  /\ req' = [req EXCEPT ![r].pc = "counts",
                        ![r].pend = {"followingCount", "followersCount"}]
  /\ UNCHANGED <<followersCount, followingCount, murmursCount, murmurs, likes, notifications>>
  /\ UNCHANGED <<lastFollow, now, users>>

\* UserService.updateCounts(currentUserId, { followingCount: -1 }) and
\* UserService.updateCounts(targetUserId, { followersCount: -1 }), in either order
UnfollowUpdateCounts(r, which) ==
  /\ At(r, "unfollow", "counts")
  /\ which \in req[r].pend
  /\ IF which = "followingCount"
       THEN /\ followingCount' = UpdateCounts(followingCount, req[r].user, -1)
            /\ UNCHANGED followersCount
       ELSE /\ followersCount' = UpdateCounts(followersCount, req[r].target, -1)
            /\ UNCHANGED followingCount
  /\ LET left == req[r].pend \ {which}
     IN IF left # {}
          THEN req' = [req EXCEPT ![r].pend = left]
          ELSE req' = [req EXCEPT ![r].pend = left, ![r].pc = "done", ![r].status = 200,
                                  ![r].resp = Max(0, req[r].snap - 1)]
  /\ UNCHANGED <<murmursCount, follows, murmurs, likes, notifications>>
  /\ UNCHANGED <<lastFollow, now, users>>

\* ------------------------------------------------------------ murmurs, likes
\* MurmurService.findById: the row with this id that is not soft-deleted, if any
FindMurmurDeletedToo(ms, id) == id \in 1..Len(ms)
FindMurmur(ms, id) == id \in 1..Len(ms) /\ ~ms[id].isDeleted

\* The listings of MurmurService. Each runs findMany and count with one where
\* clause: rows are the rows the clause selects (orderBy, skip and take then cut a
\* page out of them), totalCount is their number.
Listing(rows) == [rows |-> rows, totalCount |-> Cardinality(rows)]

\* MurmurService.getTimeline: rows of the users that userId follows
getTimeline(ms, f, userId) ==
  Listing({m \in 1..Len(ms) : <<userId, ms[m].userId>> \in f /\ ~ms[m].isDeleted})

\* MurmurService.getPublicMurmurs
getPublicMurmurs(ms) == Listing({m \in 1..Len(ms) : ~ms[m].isDeleted})

\* MurmurService.getUserMurmurs
getUserMurmursDeletedToo(ms, userId) == Listing({m \in 1..Len(ms) : ms[m].userId = userId})
getUserMurmurs(ms, userId) ==
  Listing({m \in 1..Len(ms) : ms[m].userId = userId /\ ~ms[m].isDeleted})

\* MurmurService.search: hits are the rows whose content contains the query,
\* case-insensitively
search(ms, hits) == Listing({m \in 1..Len(ms) : m \in hits /\ ~ms[m].isDeleted})

\* MurmurService.getTrending: recent are the rows created in the last 24 hours
getTrending(ms, recent) == Listing({m \in 1..Len(ms) : m \in recent /\ ~ms[m].isDeleted})

\* orderBy { createdAt: 'desc' } over the rows ids, at[id] the createdAt of row id:
\* the orders in which the store can return them, newest first; rows with equal
\* createdAt come in either order
RECURSIVE RowOrders(_, _)
RowOrders(at, ids) ==
  IF ids = {} THEN {<<>>}
  ELSE UNION {{<<m>> \o q : q \in RowOrders(at, ids \ {m})} :
                m \in {x \in ids : \A y \in ids : at[x] >= at[y]}}

MurmurOrders(ms, ids) == RowOrders([m \in ids |-> ms[m].createdAt], ids)

\* findMany({ take, skip }) over the rows in the store's order
Page(order, take, skip) ==
  IF skip >= Len(order) THEN <<>>
  ELSE SubSeq(order, skip + 1, IF skip + take <= Len(order) THEN skip + take ELSE Len(order))

\* prisma.murmur.create: the new row, with the columns' defaults, stamped with the
\* store's clock
MurmurInsert(ms, userId, content, replyToId) ==
  Append(ms, [userId |-> userId, content |-> content, replyToId |-> replyToId,
              isDeleted |-> FALSE, likesCount |-> 0, repliesCount |-> 0,
              createdAt |-> now])

\* MurmurService.softDelete
SoftDelete(ms, id) == [ms EXCEPT ![id].isDeleted = TRUE]

\* MurmurService.incrementRepliesCount / decrementRepliesCount:
\* { increment: 1 } and { decrement: 1 }, atomic in the store
IncrementRepliesCountNothing(ms, id) == ms
IncrementRepliesCount(ms, id) == [ms EXCEPT ![id].repliesCount = @ + 1]
DecrementRepliesCount(ms, id) == [ms EXCEPT ![id].repliesCount = @ - 1]

\* LikeService.isUserLiked, getLikeCount
isUserLiked(ls, u, m) == <<u, m>> \in ls
getLikeCount(ls, m) == Cardinality({l \in ls : l[2] = m})

\* prisma.like.create, prisma.like.delete, prisma.like.deleteMany({ where: { murmurId } })
LikeInsert(ls, u, m) == ls \cup {<<u, m>>}
LikeDeleteNothing(ls, u, m) == ls
LikeDelete(ls, u, m) == ls \ {<<u, m>>}
\* LikeService.delete / unlike, its boolean: true when prisma.like.delete found the
\* row, false when it threw (record to delete does not exist) and the catch ran
LikeDeleteResultAlways(ls, u, m) == "true"
LikeDeleteResult(ls, u, m) == IF <<u, m>> \in ls THEN "true" ELSE "false"
DeleteAllByMurmur(ls, m) == {l \in ls : l[2] # m}

\* Promise.all(murmurIds.map(id => LikeService.getLikeCount(id)))
LikeCountsCached(ls, ms, ids) == [i \in 1..Len(ids) |-> ms[ids[i]].likesCount]
LikeCounts(ls, ms, ids) == [i \in 1..Len(ids) |-> getLikeCount(ls, ids[i])]

\* Promise.all(murmurIds.map(id => LikeService.isUserLiked(userId, id))), and the
\* formatted rows: { ...murmur, likesCount, isLikedByUser }; an anonymous caller
\* (NoUser) gets isLikedByUser false
Format(ls, u, ids, likeCounts) ==
  [i \in 1..Len(ids) |->
     [id |-> ids[i], likesCount |-> likeCounts[i],
      isLikedByUser |-> u # NoUser /\ isUserLiked(ls, u, ids[i])]]

\* body('content').isLength({ min, max }): the length of the value as it was sent
isLength(content, min, max) ==
  content.pad + content.core >= min /\ content.pad + content.core <= max

\* .trim(): the value without the whitespace around it; the stored string is the
\* number of its characters
trim(content) == content.core

\* ---------------------------------------------------------- POST /murmurs
\* replyTo = 0 stands for a request without replyToId. The validators and
\* handleValidationErrors run before the handler: isLength sees the content as it was
\* sent, then trim replaces it.
CreateStart(r, u, replyTo, content) ==
  /\ req[r].pc = "idle"
  /\ Len(murmurs) + Cardinality({q \in Reqs : req[q].op = "create"
                                   /\ req[q].pc \in {"findParent", "create"}}) < MaxMurmurs
  /\ IF isLength(content, 1, MaxContentLength)
       THEN req' = [req EXCEPT ![r] =
                      [Idle EXCEPT !.op = "create",
                                   !.pc = IF replyTo # 0 THEN "findParent" ELSE "create",
                                   !.user = u, !.reply = replyTo, !.content = content]]
       ELSE req' = [req EXCEPT ![r] =
                      [Idle EXCEPT !.op = "create", !.pc = "done", !.user = u,
                                   !.reply = replyTo, !.content = content,
                                   !.status = 400, !.error = "Validation failed"]]
  /\ UNCHANGED store
  /\ lastFollow' = NoTrip
  /\ UNCHANGED <<now, users>>

\* MurmurService.findById(replyToId), before the creation
CreateFindParent(r) ==
  /\ At(r, "create", "findParent")
  /\ IF FindMurmur(murmurs, req[r].reply)
       THEN Goto(r, "create")
       ELSE Respond(r, 404, "Parent murmur not found", 0)
  /\ UNCHANGED store
  /\ UNCHANGED <<lastFollow, now, users>>

\* MurmurService.create(userId, content, replyToId)
CreateMurmur(r) ==
  /\ At(r, "create", "create")
  /\ murmurs' = MurmurInsert(murmurs, req[r].user, trim(req[r].content), req[r].reply)
  /\ req' = [req EXCEPT ![r].target = Len(murmurs) + 1,
                        ![r].pc = IF req[r].reply = 0 THEN "counts" ELSE "findParentAgain"]
  /\ UNCHANGED <<followersCount, followingCount, murmursCount, follows, likes, notifications>>
  /\ UNCHANGED <<lastFollow, now, users>>

\* UserService.updateCounts(userId, { murmursCount: 1 })
CreateUpdateCounts(r) ==
  /\ At(r, "create", "counts")
  /\ murmursCount' = UpdateCounts(murmursCount, req[r].user, 1)
  /\ Respond(r, 201, "", 0)
  /\ UNCHANGED <<followersCount, followingCount, follows, murmurs, likes, notifications>>
  /\ UNCHANGED <<lastFollow, now, users>>

\* MurmurService.findById(replyToId), after the creation
CreateFindParentAgain(r) ==
  /\ At(r, "create", "findParentAgain")
  /\ IF FindMurmur(murmurs, req[r].reply)
       THEN req' = [req EXCEPT ![r].owner = murmurs[req[r].reply].userId,
                               ![r].pc = "notifyFind"]
       ELSE Respond(r, 201, "", 0)
  /\ UNCHANGED store
  /\ UNCHANGED <<lastFollow, now, users>>

\* NotificationService.create('reply', parentMurmur.userId, userId, replyToId)
CreateNotifyFind(r) ==
  /\ At(r, "create", "notifyFind")
  /\ IF SelfAction(req[r].owner, req[r].user)
       THEN req' = [req EXCEPT ![r].pc = "incrementReplies", ![r].ret = "null"]
       ELSE IF NotifExists(notifications, "reply", req[r].owner, req[r].user, req[r].reply)
         THEN req' = [req EXCEPT ![r].pc = "incrementReplies", ![r].ret = "existing"]
         ELSE Goto(r, "notifyCreate")
  /\ UNCHANGED store
  /\ UNCHANGED <<lastFollow, now, users>>

CreateNotifyCreate(r) ==
  /\ At(r, "create", "notifyCreate")
  /\ notifications' = NotifInsert(notifications, "reply", req[r].owner, req[r].user,
                                  req[r].reply)
  /\ req' = [req EXCEPT ![r].pc = "incrementReplies", ![r].ret = "created"]
  /\ UNCHANGED <<followersCount, followingCount, murmursCount, follows, murmurs, likes>>
  /\ UNCHANGED <<lastFollow, now, users>>

\* MurmurService.incrementRepliesCount(replyToId)
CreateIncrementReplies(r) ==
  /\ At(r, "create", "incrementReplies")
  /\ murmurs' = IncrementRepliesCount(murmurs, req[r].reply)
  /\ Respond(r, 201, "", 0)
  /\ UNCHANGED <<followersCount, followingCount, murmursCount, follows, likes, notifications>>
  /\ UNCHANGED <<lastFollow, now, users>>

\* ----------------------------------------------------- DELETE /murmurs/:id
DeleteStart(r, u, m) ==
  /\ req[r].pc = "idle"
  /\ Begin(r, "delete", "find", u, m, 0)
  /\ UNCHANGED store
  /\ lastFollow' = NoTrip
  /\ UNCHANGED <<now, users>>

\* MurmurService.findById(murmurId) and the ownership check
DeleteFindAnyUser(r) ==
  /\ At(r, "delete", "find")
  /\ IF FindMurmur(murmurs, req[r].target)
       THEN req' = [req EXCEPT ![r].reply = murmurs[req[r].target].replyToId,
                               ![r].pc = "softDelete"]
       ELSE Respond(r, 404, "Murmur not found or you do not have permission to delete it", 0)
  /\ UNCHANGED store
  /\ UNCHANGED <<lastFollow, now, users>>
DeleteFind(r) ==
  /\ At(r, "delete", "find")
  /\ IF FindMurmur(murmurs, req[r].target) /\ murmurs[req[r].target].userId = req[r].user
       THEN req' = [req EXCEPT ![r].reply = murmurs[req[r].target].replyToId,
                               ![r].pc = "softDelete"]
       ELSE Respond(r, 404, "Murmur not found or you do not have permission to delete it", 0)
  /\ UNCHANGED store
  /\ UNCHANGED <<lastFollow, now, users>>

\* MurmurService.softDelete(murmurId)
DeleteSoftDelete(r) ==
  /\ At(r, "delete", "softDelete")
  /\ murmurs' = SoftDelete(murmurs, req[r].target)
  /\ Goto(r, IF req[r].reply = 0 THEN "counts" ELSE "decrementReplies")
  /\ UNCHANGED <<followersCount, followingCount, murmursCount, follows, likes, notifications>>
  /\ UNCHANGED <<lastFollow, now, users>>

\* UserService.updateCounts(userId, { murmursCount: -1 })
DeleteUpdateCounts(r) ==
  /\ At(r, "delete", "counts")
  /\ murmursCount' = UpdateCounts(murmursCount, req[r].user, -1)
  /\ Goto(r, "deleteLikes")
  /\ UNCHANGED <<followersCount, followingCount, follows, murmurs, likes, notifications>>
  /\ UNCHANGED <<lastFollow, now, users>>

\* MurmurService.decrementRepliesCount(murmur.replyToId)
DeleteDecrementReplies(r) ==
  /\ At(r, "delete", "decrementReplies")
  /\ murmurs' = DecrementRepliesCount(murmurs, req[r].reply)
  /\ Goto(r, "deleteLikes")
  /\ UNCHANGED <<followersCount, followingCount, murmursCount, follows, likes, notifications>>
  /\ UNCHANGED <<lastFollow, now, users>>

\* LikeService.deleteAllByMurmur(murmurId)
DeleteLikes(r) ==
  /\ At(r, "delete", "deleteLikes")
  /\ likes' = DeleteAllByMurmur(likes, req[r].target)
  /\ Respond(r, 200, "", 0)
  /\ UNCHANGED <<followersCount, followingCount, murmursCount, follows, murmurs, notifications>>
  /\ UNCHANGED <<lastFollow, now, users>>

\* -------------------------------------------------- POST /murmurs/:id/like
LikeStart(r, u, m) ==
  /\ req[r].pc = "idle"
  /\ Begin(r, "like", "find", u, m, 0)
  /\ UNCHANGED store
  /\ lastFollow' = NoTrip
  /\ UNCHANGED <<now, users>>

\* MurmurService.findById(murmurId)
LikeFind(r) ==
  /\ At(r, "like", "find")
  /\ IF FindMurmur(murmurs, req[r].target)
       THEN req' = [req EXCEPT ![r].owner = murmurs[req[r].target].userId,
                               ![r].pc = "isLiked"]
       ELSE Respond(r, 404, "Murmur not found", 0)
  /\ UNCHANGED store
  /\ UNCHANGED <<lastFollow, now, users>>

\* LikeService.isUserLiked(userId, murmurId)
LikeIsLiked(r) ==
  /\ At(r, "like", "isLiked")
  /\ Goto(r, IF isUserLiked(likes, req[r].user, req[r].target) THEN "unlike" ELSE "like")
  /\ UNCHANGED store
  /\ UNCHANGED <<lastFollow, now, users>>

\* LikeService.unlike(userId, murmurId); a missing row is swallowed
LikeUnlikeRetracts(r) ==
  /\ At(r, "like", "unlike")
  /\ likes' = LikeDelete(likes, req[r].user, req[r].target)
  /\ notifications' = {n \in notifications :
                         ~NotifMatch(n, "like", req[r].owner, req[r].user, req[r].target)}
  /\ req' = [req EXCEPT ![r].pc = "countUnliked",
                        ![r].ret = LikeDeleteResult(likes, req[r].user, req[r].target)]
  /\ UNCHANGED <<followersCount, followingCount, murmursCount, follows, murmurs>>
  /\ UNCHANGED <<lastFollow, now, users>>
LikeUnlike(r) ==
  /\ At(r, "like", "unlike")
  /\ likes' = LikeDelete(likes, req[r].user, req[r].target)
  /\ req' = [req EXCEPT ![r].pc = "countUnliked",
                        ![r].ret = LikeDeleteResult(likes, req[r].user, req[r].target)]
  /\ UNCHANGED <<followersCount, followingCount, murmursCount, follows, murmurs, notifications>>
  /\ UNCHANGED <<lastFollow, now, users>>

\* LikeService.like(userId, murmurId); the unique index rejects a second row
LikeLike(r) ==
  /\ At(r, "like", "like")
  /\ IF <<req[r].user, req[r].target>> \in likes
       THEN /\ Throw(r, "unique", "Failed to like/unlike murmur")
            /\ UNCHANGED likes
       ELSE /\ likes' = LikeInsert(likes, req[r].user, req[r].target)
            /\ Goto(r, "notifyFind")
  /\ UNCHANGED <<followersCount, followingCount, murmursCount, follows, murmurs, notifications>>
  /\ UNCHANGED <<lastFollow, now, users>>

\* NotificationService.create('like', murmur.userId, userId, murmurId)
LikeNotifyFind(r) ==
  /\ At(r, "like", "notifyFind")
  /\ IF SelfAction(req[r].owner, req[r].user)
       THEN req' = [req EXCEPT ![r].pc = "countLiked", ![r].ret = "null"]
       ELSE IF NotifExists(notifications, "like", req[r].owner, req[r].user, req[r].target)
         THEN req' = [req EXCEPT ![r].pc = "countLiked", ![r].ret = "existing"]
         ELSE Goto(r, "notifyCreate")
  /\ UNCHANGED store
  /\ UNCHANGED <<lastFollow, now, users>>

LikeNotifyCreate(r) ==
  /\ At(r, "like", "notifyCreate")
  /\ notifications' = NotifInsert(notifications, "like", req[r].owner, req[r].user,
                                  req[r].target)
  /\ req' = [req EXCEPT ![r].pc = "countLiked", ![r].ret = "created"]
  /\ UNCHANGED <<followersCount, followingCount, murmursCount, follows, murmurs, likes>>
  /\ UNCHANGED <<lastFollow, now, users>>

\* LikeService.getLikeCount(murmurId), for the response
LikeCount(r) ==
  /\ req[r].op = "like" /\ req[r].pc \in {"countLiked", "countUnliked"}
  /\ Respond(r, 200, "", Max(0, getLikeCount(likes, req[r].target)))
  /\ UNCHANGED store
  /\ UNCHANGED <<lastFollow, now, users>>

\* ----------------------------------------------- PUT /notifications/read-all
ReadAllStart(r, u) ==
  /\ req[r].pc = "idle"
  /\ Begin(r, "readAll", "markAll", u, 0, 0)
  /\ UNCHANGED store
  /\ lastFollow' = NoTrip
  /\ UNCHANGED <<now, users>>

\* NotificationService.markAllAsRead(userId)
ReadAllMark(r) ==
  /\ At(r, "readAll", "markAll")
  /\ notifications' = MarkAllAsRead(notifications, req[r].user)
  /\ Respond(r, 200, "", 0)
  /\ UNCHANGED <<followersCount, followingCount, murmursCount, follows, murmurs, likes>>
  /\ UNCHANGED <<lastFollow, now, users>>

\* ------------------------------------------------ PUT /notifications/:id/read
ReadOneStart(r, u, id) ==
  /\ req[r].pc = "idle"
  /\ req' = [req EXCEPT ![r] = [Idle EXCEPT !.op = "readOne", !.pc = "markOne",
                                            !.user = u, !.nid = id]]
  /\ UNCHANGED store
  /\ lastFollow' = NoTrip
  /\ UNCHANGED <<now, users>>

\* NotificationService.markAsRead(notificationId, userId)
ReadOneMark(r) ==
  /\ At(r, "readOne", "markOne")
  /\ notifications' = MarkAsRead(notifications, req[r].nid, req[r].user)
  /\ Respond(r, 200, "", 0)
  /\ UNCHANGED <<followersCount, followingCount, murmursCount, follows, murmurs, likes>>
  /\ UNCHANGED <<lastFollow, now, users>>

\* ------------------------------------------------- DELETE /notifications/:id
DropStart(r, u, id) ==
  /\ req[r].pc = "idle"
  /\ req' = [req EXCEPT ![r] = [Idle EXCEPT !.op = "drop", !.pc = "deleteOne",
                                            !.user = u, !.nid = id]]
  /\ UNCHANGED store
  /\ lastFollow' = NoTrip
  /\ UNCHANGED <<now, users>>

\* NotificationService.delete(notificationId, userId)
DropDelete(r) ==
  /\ At(r, "drop", "deleteOne")
  /\ notifications' = NotificationDelete(notifications, req[r].nid, req[r].user)
  /\ Respond(r, 200, "", 0)
  /\ UNCHANGED <<followersCount, followingCount, murmursCount, follows, murmurs, likes>>
  /\ UNCHANGED <<lastFollow, now, users>>

\* ------------------------------------------------------ GET /murmurs/timeline
TimelineStart(r, u, page, limit) ==
  /\ req[r].pc = "idle"
  /\ req' = [req EXCEPT ![r] = [Idle EXCEPT !.op = "timeline", !.pc = "getFollowing",
                                            !.user = u,
                                            !.feed = [NoFeed EXCEPT !.page = page,
                                                                    !.limit = limit]]]
  /\ UNCHANGED store
  /\ lastFollow' = NoTrip
  /\ UNCHANGED <<now, users>>

\* FollowService.getFollowing(userId, 1000, 0); followingIds is not used afterwards
TimelineGetFollowing(r) ==
  /\ At(r, "timeline", "getFollowing")
  /\ Goto(r, "getTimeline")
  /\ UNCHANGED store
  /\ UNCHANGED <<lastFollow, now, users>>

\* MurmurService.getTimeline(userId, limit, offset)
TimelineGetTimeline(r) ==
  /\ At(r, "timeline", "getTimeline")
  /\ LET t == getTimeline(murmurs, follows, req[r].user)
         f == req[r].feed
     IN \E order \in MurmurOrders(murmurs, t.rows) :
          req' = [req EXCEPT ![r].pc = "likeCounts",
                             ![r].feed.ids = Page(order, f.limit, (f.page - 1) * f.limit),
                             ![r].feed.totalCount = t.totalCount]
  /\ UNCHANGED store
  /\ UNCHANGED <<lastFollow, now, users>>

TimelineLikeCounts(r) ==
  /\ At(r, "timeline", "likeCounts")
  /\ req' = [req EXCEPT ![r].pc = "userLikes",
                        ![r].feed.likeCounts = LikeCounts(likes, murmurs, req[r].feed.ids)]
  /\ UNCHANGED store
  /\ UNCHANGED <<lastFollow, now, users>>

TimelineUserLikes(r) ==
  /\ At(r, "timeline", "userLikes")
  /\ LET f == req[r].feed
     IN req' = [req EXCEPT ![r].pc = "done", ![r].status = 200,
                           ![r].feed.murmurs = Format(likes, req[r].user, f.ids, f.likeCounts),
                           ![r].feed.pagination = Pagination(f.page, f.limit, f.totalCount)]
  /\ UNCHANGED store
  /\ UNCHANGED <<lastFollow, now, users>>

\* -------------------------------------------------------------- GET /murmurs
\* u = NoUser stands for a request without a valid token (optionalAuth)
PublicStart(r, u, page, limit) ==
  /\ req[r].pc = "idle"
  /\ req' = [req EXCEPT ![r] = [Idle EXCEPT !.op = "public", !.pc = "getPublicMurmurs",
                                            !.user = u,
                                            !.feed = [NoFeed EXCEPT !.page = page,
                                                                    !.limit = limit]]]
  /\ UNCHANGED store
  /\ lastFollow' = NoTrip
  /\ UNCHANGED <<now, users>>

\* MurmurService.getPublicMurmurs(limit, offset, excludeUserId): the function takes
\* two parameters, the third argument is dropped
PublicGetPublicMurmurs(r) ==
  /\ At(r, "public", "getPublicMurmurs")
  /\ LET t == getPublicMurmurs(murmurs)
         f == req[r].feed
     IN \E order \in MurmurOrders(murmurs, t.rows) :
          req' = [req EXCEPT ![r].pc = "likeCounts",
                             ![r].feed.ids = Page(order, f.limit, (f.page - 1) * f.limit),
                             ![r].feed.totalCount = t.totalCount]
  /\ UNCHANGED store
  /\ UNCHANGED <<lastFollow, now, users>>

PublicLikeCounts(r) ==
  /\ At(r, "public", "likeCounts")
  /\ LET f == req[r].feed
         likeCounts == LikeCounts(likes, murmurs, f.ids)
     IN IF req[r].user # NoUser
          THEN req' = [req EXCEPT ![r].pc = "userLikes", ![r].feed.likeCounts = likeCounts]
          ELSE req' = [req EXCEPT ![r].pc = "done", ![r].status = 200,
                                  ![r].feed.likeCounts = likeCounts,
                                  ![r].feed.murmurs = Format(likes, NoUser, f.ids, likeCounts),
                                  ![r].feed.pagination =
                                     Pagination(f.page, f.limit, f.totalCount)]
  /\ UNCHANGED store
  /\ UNCHANGED <<lastFollow, now, users>>

PublicUserLikes(r) ==
  /\ At(r, "public", "userLikes")
  /\ LET f == req[r].feed
     IN req' = [req EXCEPT ![r].pc = "done", ![r].status = 200,
                           ![r].feed.murmurs = Format(likes, req[r].user, f.ids, f.likeCounts),
                           ![r].feed.pagination = Pagination(f.page, f.limit, f.totalCount)]
  /\ UNCHANGED store
  /\ UNCHANGED <<lastFollow, now, users>>

\* ------------------------------------------- GET /murmurs/user/:userId/likes
\* prisma.like.findMany({ where: { userId }, orderBy: { createdAt: 'desc' } }): the
\* murmurs of the user's like rows, in an order of the rows (likes carry no creation
\* time here, so every order of them is one)
LikeOrders(ls, userId) ==
  LET ids == {l[2] : l \in {k \in ls : k[1] = userId}}
  IN {q \in [1..Cardinality(ids) -> ids] :
        \A i, j \in 1..Cardinality(ids) : i < j => q[i] # q[j]}

\* likes.map(like => like.murmur).filter(murmur => murmur && !murmur.isDeleted)
NotDeleted(ms, ids) == SelectSeq(ids, LAMBDA m : ~ms[m].isDeleted)

\* the pagination object of the route: totalCount is the length of the filtered
\* page, totalPages and hasNextPage come from the count of the user's like rows
LikedPagination(page, limit, pageLength, totalCount) ==
  [page |-> page, limit |-> limit, totalCount |-> pageLength,
   totalPages |-> Ceil(totalCount, limit),
   hasNextPage |-> page * limit < totalCount,
   hasPreviousPage |-> page > 1]

LikedStart(r, u, userId, page, limit) ==
  /\ req[r].pc = "idle"
  /\ req' = [req EXCEPT ![r] = [Idle EXCEPT !.op = "liked", !.pc = "findById",
                                            !.user = u, !.target = userId,
                                            !.feed = [NoFeed EXCEPT !.page = page,
                                                                    !.limit = limit]]]
  /\ UNCHANGED store
  /\ lastFollow' = NoTrip
  /\ UNCHANGED <<now, users>>

\* UserService.findById(userId)
LikedFindUser(r) ==
  /\ At(r, "liked", "findById")
  /\ IF req[r].target \in Users
       THEN Goto(r, "findMany")
       ELSE Respond(r, 404, "User not found", 0)
  /\ UNCHANGED store
  /\ UNCHANGED <<lastFollow, now, users>>

\* LikeService.getLikesByUser: prisma.like.findMany with its included murmurs, and
\* the filter the route applies to them
LikedFindMany(r) ==
  /\ At(r, "liked", "findMany")
  /\ LET f == req[r].feed
     IN \E order \in LikeOrders(likes, req[r].target) :
          req' = [req EXCEPT ![r].pc = "count",
                             ![r].feed.ids =
                                NotDeleted(murmurs, Page(order, f.limit, (f.page - 1) * f.limit))]
  /\ UNCHANGED store
  /\ UNCHANGED <<lastFollow, now, users>>

\* LikeService.getLikesByUser: prisma.like.count({ where: { userId } })
LikedCount(r) ==
  /\ At(r, "liked", "count")
  /\ req' = [req EXCEPT ![r].pc = "likeCounts",
                         ![r].feed.totalCount =
                            Cardinality({l \in likes : l[1] = req[r].target})]
  /\ UNCHANGED store
  /\ UNCHANGED <<lastFollow, now, users>>

LikedLikeCounts(r) ==
  /\ At(r, "liked", "likeCounts")
  /\ req' = [req EXCEPT ![r].pc = "userLikes",
                         ![r].feed.likeCounts = LikeCounts(likes, murmurs, req[r].feed.ids)]
  /\ UNCHANGED store
  /\ UNCHANGED <<lastFollow, now, users>>

LikedUserLikes(r) ==
  /\ At(r, "liked", "userLikes")
  /\ LET f == req[r].feed
     IN req' = [req EXCEPT ![r].pc = "done", ![r].status = 200,
                           ![r].feed.murmurs = Format(likes, req[r].user, f.ids, f.likeCounts),
                           ![r].feed.pagination =
                              LikedPagination(f.page, f.limit, Len(f.ids), f.totalCount)]
  /\ UNCHANGED store
  /\ UNCHANGED <<lastFollow, now, users>>

\* ---------------------------------------------------------- GET /murmurs/:id
GetStart(r, u, m) ==
  /\ req[r].pc = "idle"
  /\ Begin(r, "get", "findById", u, m, 0)
  /\ UNCHANGED store
  /\ lastFollow' = NoTrip
  /\ UNCHANGED <<now, users>>

\* MurmurService.findById(murmurId)
GetFind(r) ==
  /\ At(r, "get", "findById")
  /\ IF FindMurmur(murmurs, req[r].target)
       THEN req' = [req EXCEPT ![r].pc = "likeCount", ![r].feed.ids = <<req[r].target>>]
       ELSE Respond(r, 404, "Murmur not found", 0)
  /\ UNCHANGED store
  /\ UNCHANGED <<lastFollow, now, users>>

\* LikeService.getLikeCount(murmurId)
GetLikeCount(r) ==
  /\ At(r, "get", "likeCount")
  /\ LET f == req[r].feed
         likeCounts == LikeCounts(likes, murmurs, f.ids)
     IN IF req[r].user # NoUser
          THEN req' = [req EXCEPT ![r].pc = "isLiked", ![r].feed.likeCounts = likeCounts]
          ELSE req' = [req EXCEPT ![r].pc = "done", ![r].status = 200,
                                  ![r].feed.likeCounts = likeCounts,
                                  ![r].feed.murmurs = Format(likes, NoUser, f.ids, likeCounts)]
  /\ UNCHANGED store
  /\ UNCHANGED <<lastFollow, now, users>>

\* LikeService.isUserLiked(req.user.id, murmurId)
GetIsLiked(r) ==
  /\ At(r, "get", "isLiked")
  /\ LET f == req[r].feed
     IN req' = [req EXCEPT ![r].pc = "done", ![r].status = 200,
                           ![r].feed.murmurs = Format(likes, req[r].user, f.ids, f.likeCounts)]
  /\ UNCHANGED store
  /\ UNCHANGED <<lastFollow, now, users>>

\* ------------------------------------------- MurmurService.getTrending(limit, offset)
\* no route calls it; a call is a request of its own
TrendingStart(r, limit, offset) ==
  /\ req[r].pc = "idle"
  /\ req' = [req EXCEPT ![r] = [Idle EXCEPT !.op = "trending", !.pc = "findMany",
                                            !.feed = [NoFeed EXCEPT !.limit = limit,
                                                                    !.offset = offset]]]
  /\ UNCHANGED store
  /\ lastFollow' = NoTrip
  /\ UNCHANGED <<now, users>>

\* prisma.murmur.findMany: orderBy { likesCount: 'desc' } on the cached column, rows
\* with equal likesCount in either order
TrendingFindMany(r) ==
  /\ At(r, "trending", "findMany")
  /\ LET recent == {m \in 1..Len(murmurs) : murmurs[m].createdAt >= now - Day}
         rows == getTrending(murmurs, recent).rows
         f == req[r].feed
     IN \E order \in RowOrders([m \in rows |-> murmurs[m].likesCount], rows) :
          req' = [req EXCEPT ![r].pc = "count", ![r].feed.at = now,
                             ![r].feed.ids = Page(order, f.limit, f.offset)]
  /\ UNCHANGED store
  /\ UNCHANGED <<lastFollow, now, users>>

\* prisma.murmur.count with the same where clause
TrendingCount(r) ==
  /\ At(r, "trending", "count")
  /\ LET recent == {m \in 1..Len(murmurs) : murmurs[m].createdAt >= now - Day}
     IN req' = [req EXCEPT ![r].pc = "done", ![r].status = 200,
                           ![r].feed.totalCount = getTrending(murmurs, recent).totalCount]
  /\ UNCHANGED store
  /\ UNCHANGED <<lastFollow, now, users>>

\* ------------------------------------------------- middleware authenticate
\* What a request presents: no Bearer header, a Bearer header with an empty token, or
\* a token that is valid, expired or malformed; a signed token carries a userId.
TokenKinds == {"none", "empty", "valid", "expired", "malformed"}

\* jwt.verify(token, jwtSecret): the class of the error it throws, "" when it
\* returns the payload
verify(kind) ==
  IF kind = "expired" THEN "TokenExpiredError"
  ELSE IF kind = "malformed" THEN "JsonWebTokenError"
  ELSE ""

\* error instanceof class, over the error classes of jsonwebtoken:
\* TokenExpiredError and NotBeforeError extend JsonWebTokenError
instanceof(error, class) ==
  \/ error = class
  \/ class = "JsonWebTokenError" /\ error \in {"TokenExpiredError", "NotBeforeError"}

AuthStart(r, kind, userId) ==
  /\ req[r].pc = "idle"
  /\ req' = [req EXCEPT ![r] = [Idle EXCEPT !.op = "authenticate", !.pc = "verify",
                                            !.ret = kind, !.user = userId]]
  /\ UNCHANGED store
  /\ lastFollow' = NoTrip
  /\ UNCHANGED <<now, users>>

\* the header checks, jwt.verify and the catch block
AuthVerify(r) ==
  /\ At(r, "authenticate", "verify")
  /\ LET error == verify(req[r].ret)
     IN IF req[r].ret \in {"none", "empty"}
          THEN Respond(r, 401, "Access token is required", 0)
          ELSE IF error = "" THEN Goto(r, "findById")
          ELSE IF instanceof(error, "JsonWebTokenError")
                 THEN req' = [req EXCEPT ![r].pc = "done", ![r].status = 401,
                                         ![r].error = "Invalid token",
                                         ![r].thrown = error]
          ELSE IF instanceof(error, "TokenExpiredError")
                 THEN req' = [req EXCEPT ![r].pc = "done", ![r].status = 401,
                                         ![r].error = "Token expired",
                                         ![r].thrown = error]
          ELSE Throw(r, error, "Authentication failed")
  /\ UNCHANGED store
  /\ UNCHANGED <<lastFollow, now, users>>

\* UserService.findById(decoded.userId); 200 stands for next()
AuthFindById(r) ==
  /\ At(r, "authenticate", "findById")
  /\ IF req[r].user \in Users
       THEN Respond(r, 200, "", 0)
       ELSE Respond(r, 401, "Invalid or inactive user", 0)
  /\ UNCHANGED store
  /\ UNCHANGED <<lastFollow, now, users>>

\* ------------------------------------------------------- POST /auth/register
\* The body passed validation; its username and email are kept in the slot's user
\* and target fields.
RegisterStart(r, username, email) ==
  /\ req[r].pc = "idle"
  /\ Begin(r, "register", "findByEmail", username, email, 0)
  /\ UNCHANGED store
  /\ lastFollow' = NoTrip
  /\ UNCHANGED <<now, users>>

\* UserService.findByEmail(email); snap is 1 for a row found (existingUserByEmail)
RegisterFindByEmail(r) ==
  /\ At(r, "register", "findByEmail")
  /\ req' = [req EXCEPT ![r].pc = "findByUsername",
                         ![r].snap = IF \E u \in users : u.email = req[r].target
                                       THEN 1 ELSE 0]
  /\ UNCHANGED store
  /\ UNCHANGED <<lastFollow, now, users>>

\* UserService.findByUsername(username) and the two checks that follow it
RegisterFindByUsername(r) ==
  /\ At(r, "register", "findByUsername")
  /\ IF req[r].snap = 1
       THEN Respond(r, 409, "Email already registered", 0)
       ELSE IF \E u \in users : u.username = req[r].user
              THEN Respond(r, 409, "Username already taken", 0)
              ELSE Goto(r, "create")
  /\ UNCHANGED store
  /\ UNCHANGED <<lastFollow, now, users>>

\* prisma.user.create under the unique indexes users_username_key and
\* users_email_key: a second row of the same username or email is rejected with
\* P2002, which the catch of the route answers
UserCreateRejected(us, username, email) ==
  \E u \in us : u.username = username \/ u.email = email

RegisterCreate(r) ==
  /\ At(r, "register", "create")
  /\ IF UserCreateRejected(users, req[r].user, req[r].target)
       THEN /\ Throw(r, "P2002", "Registration failed")
            /\ UNCHANGED users
       ELSE /\ users' = users \cup {[username |-> req[r].user, email |-> req[r].target]}
            /\ Goto(r, "updateLastLogin")
  /\ UNCHANGED store
  /\ UNCHANGED <<lastFollow, now>>

\* jwt.sign, UserService.updateLastLogin(user.id) and the 201 answer
RegisterUpdateLastLogin(r) ==
  /\ At(r, "register", "updateLastLogin")
  /\ Respond(r, 201, "", 0)
  /\ UNCHANGED store
  /\ UNCHANGED <<lastFollow, now, users>>

\* ------------------------------------------------- GET /users/:userId/followers
FollowersStart(r, target, page, limit) ==
  /\ req[r].pc = "idle"
  /\ req' = [req EXCEPT ![r] = [Idle EXCEPT !.op = "followers", !.pc = "findUser",
                                            !.target = target,
                                            !.feed = [NoFeed EXCEPT !.page = page,
                                                                    !.limit = limit]]]
  /\ UNCHANGED store
  /\ lastFollow' = NoTrip
  /\ UNCHANGED <<now, users>>

\* UserService.findById(userId)
FollowersFindUser(r) ==
  /\ At(r, "followers", "findUser")
  /\ IF req[r].target \in Users
       THEN Goto(r, "getFollowers")
       ELSE Respond(r, 404, "User not found", 0)
  /\ UNCHANGED store
  /\ UNCHANGED <<lastFollow, now, users>>

\* FollowService.getFollowers(userId, limit, skip): the edges into userId, newest
\* first; the model keeps no creation time of an edge, they come in any order
FollowersGetFollowers(r) ==
  /\ At(r, "followers", "getFollowers")
  /\ LET rows == {a \in Users : <<a, req[r].target>> \in follows}
         f == req[r].feed
     IN \E order \in RowOrders([a \in rows |-> 0], rows) :
          req' = [req EXCEPT ![r].pc = "done", ![r].status = 200,
                             ![r].feed.ids = Page(order, f.limit, (f.page - 1) * f.limit),
                             ![r].feed.totalCount = Cardinality(rows),
                             ![r].feed.pagination =
                                Pagination(f.page, f.limit, Cardinality(rows))]
  /\ UNCHANGED store
  /\ UNCHANGED <<lastFollow, now, users>>

\* ------------------------------------------------------- GET /notifications
ListStart(r, u, limit, cursor) ==
  /\ req[r].pc = "idle"
  /\ req' = [req EXCEPT ![r] = [Idle EXCEPT !.op = "list", !.pc = "findMany",
                                            !.user = u, !.nid = cursor,
                                            !.list = [NoList EXCEPT !.limit = limit]]]
  /\ UNCHANGED store
  /\ lastFollow' = NoTrip
  /\ UNCHANGED <<now, users>>

\* NotificationService.getUserNotifications(userId, limit, cursor)
ListFind(r) ==
  /\ At(r, "list", "findMany")
  /\ \E order \in Orders({n \in notifications : n.userId = req[r].user}) :
       req' = [req EXCEPT ![r].pc = "done", ![r].status = 200,
                          ![r].list = getUserNotifications(order, req[r].list.limit,
                                                           req[r].nid)]
  /\ UNCHANGED store
  /\ UNCHANGED <<lastFollow, now, users>>

\* ------------------------------------------------------- specifications
FollowSteps(r, callers) ==
  \/ \E a \in callers, b \in callers \cup {NoUser} : FollowStart(r, a, b)
  \/ FollowFindTarget(r)
  \/ FollowCheckExisting(r)
  \/ FollowCreate(r)
  \/ \E w \in {"followingCount", "followersCount"} : FollowUpdateCounts(r, w)
  \/ FollowNotifyFind(r)
  \/ FollowNotifyCreate(r)

UnfollowSteps(r, callers) ==
  \/ \E a \in callers, b \in callers \cup {NoUser} : UnfollowStart(r, a, b)
  \/ UnfollowFindTarget(r)
  \/ UnfollowCheckExisting(r)
  \/ UnfollowDelete(r)
  \/ \E w \in {"followingCount", "followersCount"} : UnfollowUpdateCounts(r, w)

CreateContentSteps(r, callers, contents) ==
  \/ \E u \in callers, content \in contents : CreateStart(r, u, 0, content)
  \/ CreateMurmur(r)
  \/ CreateUpdateCounts(r)

CreateRootSteps(r, callers) == CreateContentSteps(r, callers, {Plain})

ReplySteps(r, callers) ==
  \/ \E u \in callers, p \in MurmurIds : CreateStart(r, u, p, Plain)
  \/ CreateFindParent(r)
  \/ CreateFindParentAgain(r)
  \/ CreateNotifyFind(r)
  \/ CreateNotifyCreate(r)
  \/ CreateIncrementReplies(r)
  \/ DeleteDecrementReplies(r)

DeleteSteps(r, callers) ==
  \/ \E u \in callers, m \in MurmurIds : DeleteStart(r, u, m)
  \/ DeleteFind(r)
  \/ DeleteSoftDelete(r)
  \/ DeleteUpdateCounts(r)
  \/ DeleteLikes(r)

MurmurSteps(r, callers) ==
  CreateRootSteps(r, callers) \/ ReplySteps(r, callers) \/ DeleteSteps(r, callers)

LikeSteps(r, callers) ==
  \/ \E u \in callers, m \in MurmurIds : LikeStart(r, u, m)
  \/ LikeFind(r)
  \/ LikeIsLiked(r)
  \/ LikeUnlike(r)
  \/ LikeLike(r)
  \/ LikeNotifyFind(r)
  \/ LikeNotifyCreate(r)
  \/ LikeCount(r)

\* the ids a request can name: those of the stored rows, and one of no row
NotifIds == {NotifId(n) : n \in notifications} \cup {NoId}

ReadOneSteps(r, callers) ==
  \/ \E u \in callers, id \in NotifIds : ReadOneStart(r, u, id)
  \/ ReadOneMark(r)

DropSteps(r, callers) ==
  \/ \E u \in callers, id \in NotifIds : DropStart(r, u, id)
  \/ DropDelete(r)

ReadAllSteps(r, callers) ==
  \/ \E u \in callers : ReadAllStart(r, u)
  \/ ReadAllMark(r)

TimelineSteps(r, callers, pages, limits) ==
  \/ \E u \in callers, page \in pages, limit \in limits : TimelineStart(r, u, page, limit)
  \/ TimelineGetFollowing(r)
  \/ TimelineGetTimeline(r)
  \/ TimelineLikeCounts(r)
  \/ TimelineUserLikes(r)

PublicSteps(r, callers, pages, limits) ==
  \/ \E u \in callers, page \in pages, limit \in limits : PublicStart(r, u, page, limit)
  \/ PublicGetPublicMurmurs(r)
  \/ PublicLikeCounts(r)
  \/ PublicUserLikes(r)

LikedSteps(r, callers, targets, pages, limits) ==
  \/ \E u \in callers, userId \in targets, page \in pages, limit \in limits :
       LikedStart(r, u, userId, page, limit)
  \/ LikedFindUser(r)
  \/ LikedFindMany(r)
  \/ LikedCount(r)
  \/ LikedLikeCounts(r)
  \/ LikedUserLikes(r)

GetSteps(r, callers) ==
  \/ \E u \in callers, m \in MurmurIds : GetStart(r, u, m)
  \/ GetFind(r)
  \/ GetLikeCount(r)
  \/ GetIsLiked(r)

TrendingSteps(r, limits, offsets) ==
  \/ \E limit \in limits, offset \in offsets : TrendingStart(r, limit, offset)
  \/ TrendingFindMany(r)
  \/ TrendingCount(r)

FollowersSteps(r, targets, pages, limits) ==
  \/ \E b \in targets, page \in pages, limit \in limits : FollowersStart(r, b, page, limit)
  \/ FollowersFindUser(r)
  \/ FollowersGetFollowers(r)

\* a listing asks for a page of 1..MaxLimit rows, from the start or from one of the
\* caller's stored rows
AuthSteps(r, callers) ==
  \/ \E kind \in TokenKinds, userId \in callers : AuthStart(r, kind, userId)
  \/ AuthVerify(r)
  \/ AuthFindById(r)

RegisterSteps(r, names, emails) ==
  \/ \E username \in names, email \in emails : RegisterStart(r, username, email)
  \/ RegisterFindByEmail(r)
  \/ RegisterFindByUsername(r)
  \/ RegisterCreate(r)
  \/ RegisterUpdateLastLogin(r)

ListSteps(r, callers) ==
  \/ \E u \in callers, limit \in Limits :
       \E cursor \in {NotifId(n) : n \in {m \in notifications : m.userId = u}} \cup {NoId} :
         ListStart(r, u, limit, cursor)
  \/ ListFind(r)

\* Requests of every kind, from every user, interleaved at their awaits.
Next ==
  \E r \in Reqs : \/ FollowSteps(r, Users) \/ UnfollowSteps(r, Users)
                  \/ MurmurSteps(r, Users) \/ LikeSteps(r, Users)
                  \/ CreateContentSteps(r, Users, Contents)
                  \/ ReadAllSteps(r, Users)
                  \/ ReadOneSteps(r, Users) \/ DropSteps(r, Users)
                  \/ ListSteps(r, Users)
                  \/ TimelineSteps(r, Users, Pages, Limits)
                  \/ PublicSteps(r, Users \cup {NoUser}, Pages, Limits)
                  \/ GetSteps(r, Users \cup {NoUser})
                  \/ FollowersSteps(r, Users \cup {NoUser}, Pages, Limits)
                  \/ TrendingSteps(r, Limits, 0..MaxLimit)
                  \/ RegisterSteps(r, Names, Emails)
                  \/ AuthSteps(r, Users \cup {NoUser})
                  \/ LikedSteps(r, Users, Users \cup {NoUser}, Pages, Limits)
                  \/ Tick
                  \/ Finish(r)
Spec == Init /\ [][Next]_vars

\* The specifications below restrict Spec to the requests a property is about.

\* Follow requests only, interleaved.
NextFollowOnly == \E r \in Reqs : FollowSteps(r, Users) \/ Finish(r)
SpecFollowOnly == Init /\ [][NextFollowOnly]_vars

\* Follow and unfollow requests, interleaved.
NextFollow ==
  \E r \in Reqs : FollowSteps(r, Callers) \/ UnfollowSteps(r, Callers) \/ Finish(r)
SpecFollow == Init /\ [][NextFollow]_vars

\* Murmur and like requests, interleaved.
NextMurmur == \E r \in Reqs : MurmurSteps(r, Callers) \/ LikeSteps(r, Callers) \/ Finish(r)
SpecMurmur == Init /\ [][NextMurmur]_vars

\* Follow, unfollow, murmur and like requests, one at a time.
NextSeq ==
  \/ FollowSteps(1, Callers) \/ UnfollowSteps(1, Callers)
  \/ MurmurSteps(1, Callers) \/ LikeSteps(1, Callers)
  \/ Finish(1)
SpecSeq == Init /\ [][NextSeq]_vars

\* Follow and unfollow requests, one at a time.
NextFollowSeq == FollowSteps(1, Callers) \/ UnfollowSteps(1, Callers) \/ Finish(1)
SpecFollowSeq == Init /\ [][NextFollowSeq]_vars

\* Root murmurs created and deleted by one author and likes toggled by every caller,
\* the author included, one request at a time.
NextLikeSeq ==
  CreateRootSteps(1, {1}) \/ DeleteSteps(1, {1}) \/ LikeSteps(1, Callers) \/ Finish(1)
SpecLikeSeq == Init /\ [][NextLikeSeq]_vars

\* Like toggles by every caller, interleaved, on the root murmurs of one author.
NextLike == \E r \in Reqs : CreateRootSteps(r, {1}) \/ LikeSteps(r, Callers) \/ Finish(r)
SpecLike == Init /\ [][NextLike]_vars

\* Like toggles by one user, interleaved, on that user's own root murmurs (the
\* notification of a like of one's own murmur is suppressed, so none is written).
NextToggle ==
  \/ CreateRootSteps(1, {1})
  \/ \E r \in Reqs : \/ \E m \in MurmurIds : LikeStart(r, 1, m)
                      \/ LikeFind(r)
                      \/ LikeIsLiked(r)
                      \/ LikeUnlike(r)
                      \/ LikeLike(r)
                      \/ LikeNotifyFind(r)
                      \/ LikeCount(r)
                      \/ Finish(r)
SpecToggle == Init /\ [][NextToggle]_vars

\* Root murmurs of one author, replies and deletions by every caller, one request
\* at a time.
NextReplySeq ==
  CreateRootSteps(1, {1}) \/ ReplySteps(1, Callers) \/ DeleteSteps(1, Callers) \/ Finish(1)
SpecReplySeq == Init /\ [][NextReplySeq]_vars

\* Root murmurs created and deleted by one author, and follow requests between
\* the author and a reader, one request at a time.
NextFeedSeq ==
  FollowSteps(1, {1, 2}) \/ CreateRootSteps(1, {1}) \/ DeleteSteps(1, {1}) \/ Finish(1)
SpecFeedSeq == Init /\ [][NextFeedSeq]_vars

\* Root murmurs of one author; replies, deletions and like toggles by the author
\* and by one other user; the author marking notifications read; one request at a
\* time.
NextNotifySeq ==
  \/ CreateRootSteps(1, {1}) \/ ReplySteps(1, {1, 2}) \/ DeleteSteps(1, {1, 2})
  \/ LikeSteps(1, {1, 2}) \/ ReadAllSteps(1, {1})
  \/ Finish(1)
SpecNotifySeq == Init /\ [][NextNotifySeq]_vars

\* Follow and unfollow requests between two users and their like toggles on the
\* root murmurs of one of them, one request at a time.
NextRetractSeq ==
  \/ FollowSteps(1, {1, 2}) \/ UnfollowSteps(1, {1, 2})
  \/ CreateRootSteps(1, {1}) \/ LikeSteps(1, {1, 2})
  \/ Finish(1)
SpecRetractSeq == Init /\ [][NextRetractSeq]_vars

\* Like toggles by one user on the root murmurs of another, and both users
\* marking read and deleting notifications by id, one request at a time.
NextReadSeq ==
  \/ CreateRootSteps(1, {1}) \/ LikeSteps(1, {2})
  \/ ReadOneSteps(1, {1, 2}) \/ DropSteps(1, {1, 2})
  \/ Finish(1)
SpecReadSeq == Init /\ [][NextReadSeq]_vars

\* One user following another and liking the root murmurs of that user, while the
\* clock ticks, and the followed user paging through the notifications, one request
\* at a time; the murmurs are posted before the first tick.
NextListSeq ==
  \/ FollowStart(1, 2, 1) \/ FollowFindTarget(1) \/ FollowCheckExisting(1)
  \/ FollowCreate(1)
  \/ \E w \in {"followingCount", "followersCount"} : FollowUpdateCounts(1, w)
  \/ FollowNotifyFind(1) \/ FollowNotifyCreate(1)
  \/ now = 0 /\ CreateRootSteps(1, {1})
  \/ LikeSteps(1, {2})
  \/ ListSteps(1, {1})
  \/ Tick
  \/ Finish(1)
SpecListSeq == Init /\ [][NextListSeq]_vars

\* One user following another, both posting root murmurs and replies and the
\* followed one deleting murmurs while the clock ticks, and the follower reading the
\* timeline, one request at a time.
NextTimelineSeq ==
  \/ FollowStart(1, 2, 1) \/ FollowFindTarget(1) \/ FollowCheckExisting(1)
  \/ FollowCreate(1)
  \/ \E w \in {"followingCount", "followersCount"} : FollowUpdateCounts(1, w)
  \/ FollowNotifyFind(1) \/ FollowNotifyCreate(1)
  \/ CreateRootSteps(1, {1, 2}) \/ ReplySteps(1, {1, 2}) \/ DeleteSteps(1, {1})
  \/ TimelineSteps(1, {2}, Pages, Limits)
  \/ Tick
  \/ Finish(1)
SpecTimelineSeq == Init /\ [][NextTimelineSeq]_vars

\* One user following another and both toggling likes on the root murmurs of the
\* followed one, and the follower and an anonymous caller reading the timeline, the
\* public feed and single murmurs, one request at a time.
NextLikesReadSeq ==
  \/ FollowStart(1, 2, 1) \/ FollowFindTarget(1) \/ FollowCheckExisting(1)
  \/ FollowCreate(1)
  \/ \E w \in {"followingCount", "followersCount"} : FollowUpdateCounts(1, w)
  \/ FollowNotifyFind(1) \/ FollowNotifyCreate(1)
  \/ CreateRootSteps(1, {1}) \/ LikeSteps(1, {1, 2})
  \/ TimelineSteps(1, {2}, Pages, Limits)
  \/ PublicSteps(1, {2, NoUser}, Pages, Limits)
  \/ GetSteps(1, {2, NoUser})
  \/ Finish(1)
SpecLikesReadSeq == Init /\ [][NextLikesReadSeq]_vars

\* Two users posting root murmurs and replies and deleting murmurs while the clock
\* ticks, and one of them and an anonymous caller reading the public feed, one
\* request at a time.
NextPublicSeq ==
  \/ CreateRootSteps(1, {1, 2}) \/ ReplySteps(1, {1, 2}) \/ DeleteSteps(1, {1, 2})
  \/ PublicSteps(1, {2, NoUser}, Pages, Limits)
  \/ Tick
  \/ Finish(1)
SpecPublicSeq == Init /\ [][NextPublicSeq]_vars

\* Pages of the timeline of a follower and of the followers of a user, over stores
\* of every size up to MaxItems murmurs, one request at a time.
NextPageSeq ==
  \/ TimelineSteps(1, {2}, Pages, PageSizes)
  \/ FollowersSteps(1, {1, NoUser}, Pages, PageSizes)
  \/ Finish(1)
SpecPageSeq == InitPage /\ [][NextPageSeq]_vars

\* Two users posting root murmurs with contents around the validator's limits, one
\* request at a time.
NextContentSeq == CreateContentSteps(1, {1, 2}, Contents) \/ Finish(1)
SpecContentSeq == Init /\ [][NextContentSeq]_vars

\* One user posting root murmurs and deleting murmurs and two users replying while
\* the clock ticks, and calls of getTrending, one request at a time.
NextTrendingSeq ==
  \/ CreateRootSteps(1, {1}) \/ ReplySteps(1, {1, 2}) \/ DeleteSteps(1, {1})
  \/ TrendingSteps(1, Limits, {0})
  \/ Tick
  \/ Finish(1)
SpecTrendingSeq == Init /\ [][NextTrendingSeq]_vars

\* Root murmurs created and deleted by their author and likes toggled by another
\* user, interleaved at their awaits.
NextLikeDelete ==
  \E r \in Reqs : \/ CreateRootSteps(r, {1}) \/ DeleteSteps(r, {1})
                  \/ LikeSteps(r, {2})
                  \/ Finish(r)
SpecLikeDelete == Init /\ [][NextLikeDelete]_vars

\* Notifications for one user from a follow and from likes, while the clock ticks, and
\* that user walking the listing in two requests, the second holding the cursor of
\* the first.
NextListWalk ==
  \/ FollowStart(1, 2, 1) \/ FollowFindTarget(1) \/ FollowCheckExisting(1)
  \/ FollowCreate(1)
  \/ \E w \in {"followingCount", "followersCount"} : FollowUpdateCounts(1, w)
  \/ FollowNotifyFind(1) \/ FollowNotifyCreate(1)
  \/ now = 0 /\ CreateRootSteps(1, {1})
  \/ LikeSteps(1, {2})
  \/ \E r \in {1, 2} : ListSteps(r, {1}) \/ Finish(r)
  \/ Tick
SpecListWalk == Init /\ [][NextListWalk]_vars

\* Root murmurs of one author and replies of two users, created one request at a
\* time, and delete requests of both users interleaved at their awaits.
NextDeleteRace ==
  \/ CreateRootSteps(1, {1}) \/ ReplySteps(1, {1, 2})
  \/ \E r \in Reqs : DeleteSteps(r, {1, 2}) \/ DeleteDecrementReplies(r) \/ Finish(r)
SpecDeleteRace == Init /\ [][NextDeleteRace]_vars

\* Root murmurs of one author, likes on them by another user, and the author
\* reading that user's liked murmurs, one request at a time.
NextLikedSeq ==
  \/ CreateRootSteps(1, {1}) \/ LikeSteps(1, {2})
  \/ LikedSteps(1, {1}, {2, NoUser}, Pages, Limits)
  \/ Finish(1)
SpecLikedSeq == Init /\ [][NextLikedSeq]_vars

\* Requests at the authentication gate, with every kind of token.
NextAuth == \E r \in Reqs : AuthSteps(r, Users \cup {NoUser}) \/ Finish(r)
SpecAuth == Init /\ [][NextAuth]_vars

\* Registrations, interleaved at their awaits.
NextRegister == \E r \in Reqs : RegisterSteps(r, Names, Emails) \/ Finish(r)
SpecRegister == Init /\ [][NextRegister]_vars

\* Registrations, one at a time.
NextRegisterSeq == RegisterSteps(1, Names, Emails) \/ Finish(1)
SpecRegisterSeq == Init /\ [][NextRegisterSeq]_vars

\* Root murmurs of one author, likes on them by another user, and delete requests
\* by both, one request at a time.
NextDeleteSeq ==
  \/ CreateRootSteps(1, {1}) \/ LikeSteps(1, {2}) \/ DeleteSteps(1, {1, 2})
  \/ Finish(1)
SpecDeleteSeq == Init /\ [][NextDeleteSeq]_vars

\* Follow requests, one at a time, against a store that may reject any write that
\* comes after the creation of the edge.
NextFollowFault ==
  \/ FollowSteps(1, Users)
  \/ \E w \in {"followingCount", "followersCount"} : FollowUpdateCountsFails(1, w)
  \/ FollowNotifyFails(1)
  \/ Finish(1)
SpecFollowFault == Init /\ [][NextFollowFault]_vars

\* --------------------------------------------------------------- properties
Following(a) == {b \in Users : <<a, b>> \in follows}
Followers(b) == {a \in Users : <<a, b>> \in follows}

\* C1: with follow requests only, once every request has been answered each user's
\* followingCount is the number of users it follows (N successful follows give N).
FollowingCountIsN ==
  Quiescent => \A a \in Users : followingCount[a] = Cardinality(Following(a))

\* C2: every cached counter is non-negative in every reachable state.
CountersNonNegative ==
  /\ \A u \in Users : followersCount[u] >= 0 /\ followingCount[u] >= 0 /\ murmursCount[u] >= 0
  /\ \A m \in 1..Len(murmurs) : murmurs[m].repliesCount >= 0

\* C3: when a follow request has just been answered with success the caller follows
\* the target, and when an unfollow request has just been answered with success the
\* caller no longer does (requests one at a time).
FollowThenIsFollowing ==
  \A r \in Reqs :
    /\ (At(r, "follow", "done") /\ req[r].status = 200)
         => isFollowing(req[r].user, req[r].target)
    /\ (At(r, "unfollow", "done") /\ req[r].status = 200)
         => ~isFollowing(req[r].user, req[r].target)

FollowThenIsFollowingWitness ==
  \E r \in Reqs : /\ At(r, "unfollow", "done") /\ req[r].status = 200
                  /\ req[r].user # req[r].target
                  /\ NotifExists(notifications, "follow", req[r].target, req[r].user, 0)

\* C4: a successful unfollow(A,B) that comes right after the successful follow(A,B)
\* leaves A's followingCount and B's followersCount as they were before the follow.
RoundTripRestoresCounters ==
  \A r \in Reqs :
    (/\ At(r, "unfollow", "done") /\ req[r].status = 200
     /\ lastFollow.a = req[r].user /\ lastFollow.b = req[r].target)
      => /\ followingCount[req[r].user] = lastFollow.fing
         /\ followersCount[req[r].target] = lastFollow.fers

\* C5: a request to follow oneself is answered with the self-follow conflict
\* (409, not the generic 500), and no edge (A,A) is ever stored.
SelfFollowIsConflict ==
  /\ \A a \in Users : <<a, a>> \notin follows
  /\ \A r \in Reqs :
       (At(r, "follow", "done") /\ req[r].user = req[r].target)
         => req[r].status = 409 /\ req[r].thrown = ""

\* C6: a follow request that finds the edge at its existence check is answered
\* 409 'Already following this user', and no step it takes up to and including that
\* check changes a follow edge, a counter or a notification.
AlreadyFollowingStep ==
  \A r \in Reqs :
    (/\ req[r].op = "follow" /\ req[r].pc \in {"findTarget", "checkExisting"}
     /\ req'[r] # req[r])
      => /\ UNCHANGED store
         /\ (req[r].pc = "checkExisting" /\ <<req[r].user, req[r].target>> \in follows)
              => /\ req'[r].pc = "done" /\ req'[r].status = 409
                 /\ req'[r].error = "Already following this user"

AlreadyFollowingLeavesStore == [][AlreadyFollowingStep]_vars

AlreadyFollowingWitness ==
  \E r \in Reqs : /\ At(r, "follow", "done") /\ req[r].status = 409
                  /\ <<req[r].user, req[r].target>> \in follows

\* C7: a follow request whose creation the uniqueness constraint rejected is
\* answered 409 'Already following this user', and the edge is stored once.
UniqueViolationIsAlreadyFollowing ==
  \A r \in Reqs :
    (At(r, "follow", "done") /\ req[r].thrown = "unique")
      => /\ req[r].status = 409 /\ req[r].error = "Already following this user"
         /\ <<req[r].user, req[r].target>> \in follows

\* C8: a follow request that failed after it created the edge does not leave the
\* edge behind without its effect on both counters.
EdgeHasCounterEffects ==
  \A r \in Reqs :
    (/\ At(r, "follow", "done") /\ req[r].thrown = "store"
     /\ <<req[r].user, req[r].target>> \in follows)
      => followingCount[req[r].user] >= 1 /\ followersCount[req[r].target] >= 1

\* C9: with follow requests only, once every request has been answered each user's
\* followersCount is the number of follow edges pointing at it (no lost update).
FollowersCountIsEdges ==
  Quiescent => \A b \in Users : followersCount[b] = Cardinality(Followers(b))

\* C10: the like of a pair not yet liked makes isLiked true and raises the like
\* count of the murmur by exactly 1; the unlike of a liked pair makes isLiked false,
\* lowers the count by exactly 1 and leaves the like edges as they were before the like.
LikeRoundTripStep ==
  \A r \in Reqs :
    LET u == req[r].user
        m == req[r].target
    IN /\ (At(r, "like", "like") /\ ~isUserLiked(likes, u, m) /\ req'[r] # req[r])
            => /\ isUserLiked(likes', u, m)
               /\ getLikeCount(likes', m) = getLikeCount(likes, m) + 1
               /\ likes' \ {<<u, m>>} = likes
       /\ (At(r, "like", "unlike") /\ isUserLiked(likes, u, m) /\ req'[r] # req[r])
            => /\ ~isUserLiked(likes', u, m)
               /\ getLikeCount(likes', m) = getLikeCount(likes, m) - 1
               /\ likes' \cup {<<u, m>>} = likes

LikeRoundTrip == [][LikeRoundTripStep]_vars

LikeRoundTripWitness ==
  \E r \in Reqs : /\ At(r, "like", "countUnliked")
                  /\ ~isUserLiked(likes, req[r].user, req[r].target)
                  /\ FindMurmur(murmurs, req[r].target)

\* C11: LikeService.like on a pair that is already liked is a no-op: it raises no
\* error (the request does not end in the handler's catch) and the like edges stay.
LikeIsIdempotentStep ==
  \A r \in Reqs :
    (/\ At(r, "like", "like") /\ req'[r] # req[r]
     /\ isUserLiked(likes, req[r].user, req[r].target))
      => /\ likes' = likes
         /\ req'[r].thrown = "" /\ req'[r].status # 500

LikeIsIdempotent == [][LikeIsIdempotentStep]_vars

\* C12: LikeService.unlike returns true exactly when the edge existed and the call
\* removed it; on a pair with no edge it returns false, raises nothing and leaves
\* the like edges and the like count of the murmur as they were.
UnlikeReturnsRemovedStep ==
  \A r \in Reqs :
    LET u == req[r].user
        m == req[r].target
        had == <<u, m>> \in likes
    IN (At(r, "like", "unlike") /\ req'[r] # req[r])
         => /\ (req'[r].ret = "true") <=> (had /\ <<u, m>> \notin likes')
            /\ req'[r].ret \in {"true", "false"}
            /\ req'[r].thrown = "" /\ req'[r].status # 500
            /\ ~had => /\ req'[r].ret = "false"
                       /\ likes' = likes
                       /\ getLikeCount(likes', m) = getLikeCount(likes, m)

UnlikeReturnsRemoved == [][UnlikeReturnsRemovedStep]_vars

UnlikeReturnsRemovedWitness ==
  \E r \in Reqs : At(r, "like", "countUnliked") /\ req[r].ret = "false"

\* the non-deleted root murmurs of a user, and the non-deleted replies to a murmur
RootsOf(u) ==
  {m \in 1..Len(murmurs) : /\ murmurs[m].userId = u /\ murmurs[m].replyToId = 0
                            /\ ~murmurs[m].isDeleted}
RepliesTo(p) == {m \in 1..Len(murmurs) : murmurs[m].replyToId = p /\ ~murmurs[m].isDeleted}

\* C13: while no create or delete request is in flight, each user's murmursCount is
\* the number of that user's non-deleted root murmurs.
MurmursCountIsRoots ==
  (\A r \in Reqs : req[r].op \notin {"create", "delete"})
    => \A u \in Users : murmursCount[u] = Cardinality(RootsOf(u))

\* C14: with requests one at a time, the creation of a reply to M raises M's
\* repliesCount by exactly 1 and leaves every murmursCount as it was, the deletion
\* of a reply lowers the parent's repliesCount by exactly 1, and between requests
\* every murmur's repliesCount is the number of its non-deleted replies.
RepliesCountStep ==
  /\ (\A r \in Reqs : req'[r].op \notin {"create", "delete"})
       => \A p \in 1..Len(murmurs') : murmurs'[p].repliesCount = Cardinality(RepliesTo(p)')
  /\ \A r \in Reqs :
    /\ (req[r].op = "create" /\ req[r].reply # 0 /\ req'[r] # req[r])
         => murmursCount' = murmursCount
    /\ (At(r, "create", "incrementReplies") /\ req'[r] # req[r])
         => murmurs'[req[r].reply].repliesCount = murmurs[req[r].reply].repliesCount + 1
    /\ (At(r, "delete", "decrementReplies") /\ req'[r] # req[r])
         => /\ murmurs'[req[r].reply].repliesCount = murmurs[req[r].reply].repliesCount - 1
            /\ murmursCount' = murmursCount

RepliesCountIsReplies == [][RepliesCountStep]_vars

RepliesCountWitness ==
  \E r \in Reqs : /\ At(r, "delete", "done") /\ req[r].status = 200 /\ req[r].reply # 0
                  /\ murmurs[req[r].reply].repliesCount = 0
                  /\ murmurs[req[r].target].userId # murmurs[req[r].reply].userId

\* the murmurs that some read returns: findById, or a row of some listing, for
\* some caller, some query and some cut-off of the trending window; and the
\* listings whose totalCount is not the number of their non-deleted rows
Returned ==
  LET ids == 1..Len(murmurs)
  IN {m \in ids : FindMurmur(murmurs, m)}
       \cup getPublicMurmurs(murmurs).rows
       \cup UNION {getTimeline(murmurs, follows, u).rows : u \in Users}
       \cup UNION {getUserMurmurs(murmurs, u).rows : u \in Users}
       \cup UNION {search(murmurs, h).rows : h \in SUBSET ids}
       \cup UNION {getTrending(murmurs, h).rows : h \in SUBSET ids}

Live(rows) == Cardinality({m \in rows : ~murmurs[m].isDeleted})

CountsDeleted ==
  LET ids == 1..Len(murmurs)
  IN \/ getPublicMurmurs(murmurs).totalCount # Live(ids)
     \/ \E u \in Users :
          \/ getUserMurmurs(murmurs, u).totalCount # Live({m \in ids : murmurs[m].userId = u})
          \/ getTimeline(murmurs, follows, u).totalCount
               # Live({m \in ids : <<u, murmurs[m].userId>> \in follows})
     \/ \E h \in SUBSET ids : \/ search(murmurs, h).totalCount # Live(h)
                               \/ getTrending(murmurs, h).totalCount # Live(h)

\* C15: a soft-deleted murmur stays soft-deleted, and in every state after its
\* deletion findById does not find it and no listing (public feed, user murmurs,
\* timeline, search, trending) returns it or counts it in totalCount.
DeletedStaysHiddenStep ==
  /\ \A m \in 1..Len(murmurs) :
       murmurs[m].isDeleted => (m \in 1..Len(murmurs') /\ murmurs'[m].isDeleted)
  /\ \A m \in 1..Len(murmurs') : murmurs'[m].isDeleted => m \notin Returned'
  /\ ~CountsDeleted'

DeletedStaysHidden == [][DeletedStaysHiddenStep]_vars

DeletedStaysHiddenWitness ==
  \E m \in 1..Len(murmurs), a \in Users :
    /\ murmurs[m].isDeleted /\ murmurs[m].replyToId = 0
    /\ <<a, murmurs[m].userId>> \in follows
    /\ Quiescent /\ Len(murmurs) = MaxMurmurs
    /\ getPublicMurmurs(murmurs).totalCount = MaxMurmurs - 1

\* C16: a create request whose replyToId names no murmur, or a soft-deleted one,
\* is answered 404 'Parent murmur not found' at the parent check, and no step of
\* the request up to its answer creates a murmur, changes a counter or creates a
\* notification.
ParentMissingStep ==
  \A r \in Reqs :
    LET p == req[r].reply
        missing == p \notin 1..Len(murmurs) \/ murmurs[p].isDeleted
    IN /\ (req[r].pc = "idle" /\ req'[r].op = "create") => UNCHANGED store
       /\ (At(r, "create", "findParent") /\ req'[r] # req[r])
            => /\ UNCHANGED store
               /\ missing => /\ req'[r].pc = "done" /\ req'[r].status = 404
                              /\ req'[r].error = "Parent murmur not found"
       /\ (At(r, "create", "done") /\ req'[r] # req[r]) => UNCHANGED store

ParentMissingIsNotFound == [][ParentMissingStep]_vars

ParentMissingWitness ==
  \E r \in Reqs : /\ At(r, "create", "done") /\ req[r].status = 404
                  /\ req[r].reply \in 1..Len(murmurs) /\ murmurs[req[r].reply].isDeleted

\* C17: no stored notification has its recipient as its actor, and the
\* notification call of a user liking or replying to their own murmur returns null.
NoSelfNotification ==
  /\ \A n \in notifications : n.userId # n.actorId
  /\ \A r \in Reqs :
       (/\ \/ At(r, "like", "countLiked")
           \/ At(r, "create", "incrementReplies")
        /\ req[r].owner = req[r].user)
         => req[r].ret = "null"

NoSelfNotificationWitness ==
  /\ \E r \in Reqs : At(r, "create", "incrementReplies") /\ req[r].owner = req[r].user
  /\ \E l \in likes : murmurs[l[2]].userId = l[1]
  /\ notifications # {}

\* the arguments of a request's call of NotificationService.create, and the stored
\* rows with exactly these columns
NotifyArgs(q) ==
  CASE q.op = "follow" -> [type |-> "follow", userId |-> q.target, actorId |-> q.user,
                           murmurId |-> 0]
    [] q.op = "create" -> [type |-> "reply", userId |-> q.owner, actorId |-> q.user,
                           murmurId |-> q.reply]
    [] OTHER -> [type |-> "like", userId |-> q.owner, actorId |-> q.user,
                 murmurId |-> q.target]

RowsFor(ns, k) ==
  {n \in ns : /\ n.type = k.type /\ n.userId = k.userId /\ n.actorId = k.actorId
               /\ n.murmurId = k.murmurId}

\* C18: with requests one at a time, a call notify(type, R, A, M) with R # A leaves
\* exactly one row for (type, R, A, M) when it returns; a call that finds a row
\* returns that row and writes nothing, so a second call in succession, and a
\* like after like and unlike, leave one row.
NotifyTwiceStep ==
  \A r \in Reqs :
    LET k == NotifyArgs(req[r])
        before == RowsFor(notifications, k)
        after == RowsFor(notifications', k)
    IN (/\ req[r].op \in {"follow", "create", "like"}
        /\ req[r].pc \in {"notifyFind", "notifyCreate"}
        /\ req'[r] # req[r] /\ k.userId # k.actorId)
         => /\ req'[r].pc # "notifyCreate" => Cardinality(after) = 1
            /\ before # {} => /\ notifications' = notifications
                               /\ req'[r].ret = "existing"
            /\ (before = {} /\ req'[r].pc # "notifyCreate") => req'[r].ret = "created"

NotifyTwiceYieldsOne == [][NotifyTwiceStep]_vars

NotifyTwiceWitness ==
  \E r \in Reqs : /\ At(r, "like", "countLiked") /\ req[r].ret = "existing"
                  /\ req[r].owner # req[r].user
                  /\ Cardinality(RowsFor(notifications, NotifyArgs(req[r]))) = 1

\* C19: at most one notification is stored for each (type, userId, actorId,
\* murmurId), whatever the interleaving of the requests.
AtMostOnePerTuple ==
  \A n1, n2 \in notifications :
    (/\ n1.type = n2.type /\ n1.userId = n2.userId /\ n1.actorId = n2.actorId
     /\ n1.murmurId = n2.murmurId)
      => n1.copy = n2.copy

\* C20: with requests one at a time, when A likes a non-deleted murmur M of R # A
\* and no like notification for (R, A, M) is stored, the request stores one, and
\* when it has been answered exactly one such row exists and it is unread.
LikeNotifiesStep ==
  \A r \in Reqs :
    LET k == NotifyArgs(req[r])
        before == RowsFor(notifications, k)
        after == RowsFor(notifications', k)
    IN /\ (/\ At(r, "like", "notifyFind") /\ req'[r] # req[r]
            /\ k.userId # k.actorId /\ before = {})
            => req'[r].pc = "notifyCreate" /\ UNCHANGED store
       /\ (At(r, "like", "notifyCreate") /\ req'[r] # req[r] /\ before = {})
            => /\ Cardinality(after) = 1 /\ \A n \in after : ~n.isRead
               /\ notifications' = notifications \cup after
               /\ req'[r].ret = "created"
       /\ (req[r].op = "like" /\ req[r].ret = "created" /\ req'[r].op = "like")
            => /\ req'[r].status \in {0, 200}
               /\ Cardinality(after) = 1 /\ \A n \in after : ~n.isRead

LikeNotifiesOnce == [][LikeNotifiesStep]_vars

LikeNotifiesWitness ==
  \E r \in Reqs : /\ At(r, "like", "done") /\ req[r].status = 200
                  /\ req[r].ret = "created" /\ req[r].owner # req[r].user
                  /\ \E n \in notifications : n.isRead
                  /\ \E n \in RowsFor(notifications, NotifyArgs(req[r])) : ~n.isRead

\* C21: no step of an unfollow request, and no step of a like request that takes
\* the unlike branch, changes the stored notifications or their isRead flags.
NotificationsKeptStep ==
  \A r \in Reqs :
    (/\ \/ req[r].op = "unfollow"
        \/ /\ req[r].op = "like"
           /\ \/ req[r].pc \in {"find", "isLiked", "unlike", "countUnliked"}
              \/ req[r].ret \in {"true", "false"}
     /\ req'[r] # req[r])
      => notifications' = notifications

NotificationsKept == [][NotificationsKeptStep]_vars

NotificationsKeptWitness ==
  /\ \E r \in Reqs : /\ At(r, "like", "done") /\ req[r].ret = "true"
                      /\ req[r].owner # req[r].user
                      /\ RowsFor(notifications, NotifyArgs(req[r])) # {}
  /\ \E n \in notifications : n.type = "follow" /\ <<n.actorId, n.userId>> \notin follows

\* C22: markAsRead(id, userId) and delete(id, userId) change the row with that id
\* only when userId is its recipient; called by any other user they change no row,
\* raise no error, and the row keeps its existence and its isRead flag.
RecipientOnlyStep ==
  \A r \in Reqs :
    LET hit == {n \in notifications : NotifId(n) = req[r].nid}
        own == {n \in hit : n.userId = req[r].user}
    IN (/\ At(r, "readOne", "markOne") \/ At(r, "drop", "deleteOne")
        /\ req'[r] # req[r])
         => /\ req'[r].status = 200 /\ req'[r].thrown = ""
            /\ notifications \ hit = {n \in notifications' : NotifId(n) # req[r].nid}
            /\ own = {} => notifications' = notifications
            /\ (own # {} /\ req[r].op = "readOne")
                 => notifications' = (notifications \ hit)
                                       \cup {[n EXCEPT !.isRead = TRUE] : n \in hit}
            /\ (own # {} /\ req[r].op = "drop") => notifications' = notifications \ hit

RecipientOnly == [][RecipientOnlyStep]_vars

RecipientOnlyWitness ==
  /\ \E r \in Reqs, n \in notifications :
       /\ At(r, "drop", "done") /\ req[r].status = 200
       /\ NotifId(n) = req[r].nid /\ n.userId # req[r].user /\ ~n.isRead
  /\ \E n \in notifications : n.isRead

TimelineIsFollowedRoots ==
  \A r \in Reqs :
    At(r, "timeline", "done") =>
      LET ids == req[r].feed.ids
      IN /\ \A i \in 1..Len(ids) :
              /\ ~murmurs[ids[i]].isDeleted
              /\ murmurs[ids[i]].replyToId = 0
              /\ \/ <<req[r].user, murmurs[ids[i]].userId>> \in follows
                 \/ murmurs[ids[i]].userId = req[r].user
         /\ \A i, j \in 1..Len(ids) :
              i < j => murmurs[ids[i]].createdAt >= murmurs[ids[j]].createdAt

\* C25: for every murmur in the response of the timeline, of the public feed and of
\* the single-murmur read, likesCount is the number of like edges on the murmur and
\* isLikedByUser tells whether the caller's like edge exists, whatever the murmur's
\* cached likesCount column holds.
LikesAreReadFromEdges ==
  \A r \in Reqs :
    (req[r].op \in {"timeline", "public", "get"} /\ req[r].pc = "done"
       /\ req[r].status = 200) =>
      LET f == req[r].feed
      IN /\ Len(f.murmurs) = Len(f.ids)
         /\ \A i \in 1..Len(f.murmurs) :
              /\ f.murmurs[i].id = f.ids[i]
              /\ f.murmurs[i].likesCount
                   = Cardinality({l \in likes : l[2] = f.ids[i]})
              /\ f.murmurs[i].isLikedByUser = (<<req[r].user, f.ids[i]>> \in likes)

LikesAreReadFromEdgesWitness ==
  /\ \E r \in Reqs :
       /\ At(r, "timeline", "done")
       /\ \E i \in 1..Len(req[r].feed.murmurs) :
            /\ req[r].feed.murmurs[i].likesCount = 2
            /\ req[r].feed.murmurs[i].isLikedByUser
            /\ murmurs[req[r].feed.ids[i]].likesCount = 0
  /\ \E m \in 1..Len(murmurs) : \A l \in likes : l[2] # m

\* C26: the public feed is exactly the non-deleted murmurs that are not replies, of
\* all users, newest first, and for an authenticated caller it holds no murmur of
\* the caller: a page holds only such murmurs, in that order, as many of them as the
\* page has room for, and totalCount is their number.
PublicIsRootsOfOthers ==
  \A r \in Reqs :
    At(r, "public", "done") =>
      LET f == req[r].feed
          feed == {m \in 1..Len(murmurs) :
                     /\ ~murmurs[m].isDeleted /\ murmurs[m].replyToId = 0
                     /\ req[r].user # NoUser => murmurs[m].userId # req[r].user}
          left == Cardinality(feed) - (f.page - 1) * f.limit
      IN /\ \A i \in 1..Len(f.ids) : f.ids[i] \in feed
         /\ f.totalCount = Cardinality(feed)
         /\ Len(f.ids) = IF left <= 0 THEN 0 ELSE IF left < f.limit THEN left ELSE f.limit
         /\ \A i, j \in 1..Len(f.ids) :
              i < j => murmurs[f.ids[i]].createdAt >= murmurs[f.ids[j]].createdAt

\* C27: a listing of totalCount items requested with page p >= 1 and limit l holds
\* min(l, max(0, totalCount - (p-1)*l)) items, hasNextPage holds exactly when
\* p*l < totalCount and hasPreviousPage exactly when p > 1.
PageMetadata ==
  \A r \in Reqs :
    (req[r].op \in {"timeline", "followers"} /\ req[r].pc = "done"
       /\ req[r].status = 200) =>
      LET f == req[r].feed
          set == IF req[r].op = "timeline"
                   THEN {m \in 1..Len(murmurs) : <<req[r].user, murmurs[m].userId>> \in follows}
                   ELSE {a \in Users : <<a, req[r].target>> \in follows}
          left == f.pagination.totalCount - (f.page - 1) * f.limit
      IN /\ f.pagination.totalCount = Cardinality(set)
         /\ f.pagination.page = f.page /\ f.pagination.limit = f.limit
         /\ Len(f.ids) = IF left <= 0 THEN 0 ELSE IF left < f.limit THEN left ELSE f.limit
         /\ f.pagination.hasNextPage <=> f.page * f.limit < f.pagination.totalCount
         /\ f.pagination.hasPreviousPage <=> f.page > 1

\* page 2 with limit 10 of 15 items: 5 items, no next page, a previous page
PageMetadataWitness ==
  \E r \in Reqs :
    /\ At(r, "timeline", "done")
    /\ req[r].feed.page = 2 /\ req[r].feed.limit = 10
    /\ req[r].feed.pagination.totalCount = 15
    /\ Len(req[r].feed.ids) = 5
    /\ ~req[r].feed.pagination.hasNextPage /\ req[r].feed.pagination.hasPreviousPage

\* C28: the content of every stored murmur has between 1 and 280 characters, and a
\* create request whose content length lies outside [1, 280] is answered with the
\* validation error before anything is stored.
ContentWithinLimits ==
  /\ \A m \in 1..Len(murmurs) :
       murmurs[m].content >= 1 /\ murmurs[m].content <= MaxContentLength
  /\ \A r \in Reqs :
       (req[r].op = "create"
          /\ \/ req[r].content.pad + req[r].content.core < 1
             \/ req[r].content.pad + req[r].content.core > MaxContentLength)
         => req[r].pc = "done" /\ req[r].status = 400

\* C29: when a like or unlike toggle has completed, the cached likesCount column of
\* the murmur equals the number of like edges on it.
CachedLikesCountIsEdges ==
  \A r \in Reqs :
    (At(r, "like", "done") /\ req[r].status = 200) =>
      murmurs[req[r].target].likesCount
        = Cardinality({l \in likes : l[2] = req[r].target})

\* C30: getTrending returns only non-deleted root murmurs created within the last 24
\* hours, ordered by likesCount descending, and of two murmurs with equal likesCount
\* the one created later comes first.
TrendingIsRecentRoots ==
  \A r \in Reqs :
    At(r, "trending", "done") =>
      LET ids == req[r].feed.ids
      IN /\ \A i \in 1..Len(ids) :
              /\ ~murmurs[ids[i]].isDeleted
              /\ murmurs[ids[i]].replyToId = 0
              /\ murmurs[ids[i]].createdAt >= req[r].feed.at - Day
         /\ \A i, j \in 1..Len(ids) :
              i < j => \/ murmurs[ids[i]].likesCount > murmurs[ids[j]].likesCount
                       \/ /\ murmurs[ids[i]].likesCount = murmurs[ids[j]].likesCount
                          /\ murmurs[ids[i]].createdAt >= murmurs[ids[j]].createdAt

\* a completed toggle that read isLiked = false and went on to LikeService.like
TookLikeBranch(r) ==
  /\ At(r, "like", "done")
  /\ req[r].ret \in {"null", "existing", "created"} \/ req[r].thrown = "unique"

\* C31: when two toggle requests of one user on one murmur have both read
\* isLiked = false, both complete with a like/unlike outcome and not with the
\* generic internal failure, and exactly one like edge of the pair exists afterwards.
ToggleRaceIsTolerated ==
  \A r, q \in Reqs :
    (/\ r # q /\ TookLikeBranch(r) /\ TookLikeBranch(q)
     /\ req[r].user = req[q].user /\ req[r].target = req[q].target)
      => /\ req[r].status = 200 /\ req[r].thrown = ""
         /\ req[q].status = 200 /\ req[q].thrown = ""
         /\ <<req[r].user, req[r].target>> \in likes

\* C32: in every state in which no request is in flight, no like edge references a
\* soft-deleted murmur, also after a like toggle on the murmur has interleaved with
\* its deletion.
NoLikeOnDeleted ==
  Quiescent => \A l \in likes : ~murmurs[l[2]].isDeleted

\* C33: a delete request by a user who is not the author of the murmur is answered
\* with the not-found/permission error, and no step of it changes the murmur's
\* isDeleted flag, a counter or a like edge.
OnlyAuthorDeletesStep ==
  \A r \in Reqs :
    (/\ req[r].op = "delete" /\ req[r].pc # "done" /\ req'[r] # req[r]
     /\ req[r].target \in 1..Len(murmurs)
     /\ murmurs[req[r].target].userId # req[r].user)
      => /\ store' = store
         /\ req'[r].pc = "done" /\ req'[r].status = 404
         /\ req'[r].error = "Murmur not found or you do not have permission to delete it"

OnlyAuthorDeletes == [][OnlyAuthorDeletesStep]_vars

OnlyAuthorDeletesWitness ==
  /\ \E r \in Reqs :
       /\ At(r, "delete", "done") /\ req[r].status = 404
       /\ req[r].target \in 1..Len(murmurs)
       /\ murmurs[req[r].target].userId # req[r].user
       /\ ~murmurs[req[r].target].isDeleted
       /\ <<req[r].user, req[r].target>> \in likes
  /\ \E m \in 1..Len(murmurs) : murmurs[m].isDeleted

\* C34: following nextCursor from the first page until hasMore is false, with no
\* notification created or deleted in between, returns every notification of the
\* user exactly once, also when notifications share a creation time. Stated for a
\* walk of two pages: r holds the first page, q the page at r's nextCursor, and both
\* queries saw the rows the user has now.
Rows(list) == {list.order[i] : i \in 1..Len(list.order)}
Items(list) == {list.notifications[i] : i \in 1..Len(list.notifications)}
IsWalk(r, q) ==
  /\ r # q /\ At(r, "list", "done") /\ At(q, "list", "done")
  /\ req[r].user = req[q].user /\ req[r].list.limit = req[q].list.limit
  /\ req[r].nid = NoId /\ req[r].list.hasMore
  /\ req[q].nid = req[r].list.nextCursor /\ ~req[q].list.hasMore
  /\ Rows(req[r].list) = {n \in notifications : n.userId = req[r].user}
  /\ Rows(req[q].list) = Rows(req[r].list)

WalkReturnsEachOnce ==
  \A r, q \in Reqs :
    IsWalk(r, q) =>
      /\ Items(req[r].list) \cap Items(req[q].list) = {}
      /\ Items(req[r].list) \cup Items(req[q].list) = Rows(req[r].list)

\* the same walk over notifications with pairwise different creation times
WalkReturnsEachOnceNoTies ==
  \A r, q \in Reqs :
    (/\ IsWalk(r, q)
     /\ \A n, m \in Rows(req[r].list) : n # m => n.createdAt # m.createdAt)
      => /\ Items(req[r].list) \cap Items(req[q].list) = {}
         /\ Items(req[r].list) \cup Items(req[q].list) = Rows(req[r].list)

WalkNoTiesWitness ==
  \E r, q \in Reqs :
    /\ IsWalk(r, q)
    /\ \A n, m \in Rows(req[r].list) : n # m => n.createdAt # m.createdAt

\* C35: a registration with a username or an email that is already registered is
\* answered with a conflict (409) whose message names the field, and the table never
\* holds two rows of one username or of one email; also when two registrations of
\* the same username or email interleave.
RegisterConflicts ==
  /\ \A u, v \in users : u # v => u.username # v.username /\ u.email # v.email
  /\ \A r \in Reqs :
       At(r, "register", "done") =>
         \/ /\ req[r].status = 201
            /\ [username |-> req[r].user, email |-> req[r].target] \in users
         \/ /\ req[r].status = 409 /\ req[r].error = "Email already registered"
            /\ \E u \in users : u.email = req[r].target
         \/ /\ req[r].status = 409 /\ req[r].error = "Username already taken"
            /\ \E u \in users : u.username = req[r].user

\* C36: the authentication gate answers a request with an expired token with
\* 'Token expired' and a request with a malformed token with 'Invalid token', and
\* never the same answer for both.
TokenErrorsDistinguished ==
  \A r \in Reqs :
    At(r, "authenticate", "done") =>
      /\ req[r].ret = "expired" => req[r].error = "Token expired"
      /\ req[r].ret = "malformed" => req[r].error = "Invalid token"

\* C37: the deletion of a murmur takes its counter effect at most once, over any
\* interleaving of delete requests for the same murmur. For replies: while no create
\* or delete request is in flight, the repliesCount of a non-deleted murmur is not
\* below the number of its non-deleted replies.
DeletionCountsOnce ==
  (\A r \in Reqs : req[r].op \notin {"create", "delete"})
    => \A p \in 1..Len(murmurs) :
         ~murmurs[p].isDeleted => murmurs[p].repliesCount >= Cardinality(RepliesTo(p))

\* C38: with no other request in flight, the followersCount in the response of a
\* successful follow or unfollow request is the stored followersCount of the target
\* user after the request.
ResponseCountIsStored ==
  \A r \in Reqs :
    (req[r].op \in {"follow", "unfollow"} /\ req[r].pc = "done" /\ req[r].status = 200)
      => req[r].resp = followersCount[req[r].target]

\* C39: in the response of the liked-murmurs listing of a user, totalCount is the
\* number of that user's likes on non-deleted root murmurs, and totalPages is
\* ceil(totalCount / limit) and hasNextPage is (page * limit < totalCount) for the
\* totalCount of the same response.
LikedPaginationConsistent ==
  \A r \in Reqs :
    (At(r, "liked", "done") /\ req[r].status = 200) =>
      LET p == req[r].feed.pagination
      IN /\ p.totalCount =
              Cardinality({l \in likes : /\ l[1] = req[r].target
                                         /\ ~murmurs[l[2]].isDeleted
                                         /\ murmurs[l[2]].replyToId = 0})
         /\ p.totalPages = Ceil(p.totalCount, p.limit)
         /\ p.hasNextPage = (p.page * p.limit < p.totalCount)

====
